---- MODULE Spec2Model ----
(***************************************************************************)
(* Verification model of the stock dashboard (kyonie/stock-ai):            *)
(*   - the screening handler enhanced_screening of                         *)
(*     app_ubuntu_version_fixed_v7_chart_final_ai_analysis.py (query       *)
(*     construction, execution against the two joined tables, result       *)
(*     formatting, error boundary);                                        *)
(*   - the enhanced API handler of                                         *)
(*     app/api/enhanced_api_fixed_v6_..._margin_fix_v2.py (capability      *)
(*     probe, exception flow, connection handling);                        *)
(*   - StockAnalyzer.calculate_technical_indicators.                       *)
(*                                                                         *)
(* Numbers are fixed-point integers scaled by Scale; SQL NULL and Python   *)
(* None are the value Null; text is a sequence of characters.              *)
(***************************************************************************)
EXTENDS Integers, Sequences, FiniteSets, TLC

VARIABLES
    (* GET /api/enhanced-screening, handler enhanced_screening *)
    args,                    \* request.args: key -> raw string
    stock_data_repository,   \* module global: "None" or "ready"
    schema,                  \* columns that exist in table stock_indicators
    stock_database,          \* table stock_database, in rowid order
    screen_pc,               \* "idle" before the request, "done" after the response
    conditions,              \* the handler's list `conditions`
    params,                  \* the handler's list `params`
    query,                   \* the statement handed to execute_query
    results,                 \* rows fetched by execute_query
    response,                \* (body, HTTP status) returned by the handler
    (* the PER / PBR range predicates applied to one stored value *)
    sel_column,              \* "per" or "pbr"
    sel_text,                \* the stored text of that column
    sel_min,                 \* min_per / min_pbr, Null when not supplied
    sel_max,                 \* max_per / max_pbr, Null when not supplied
    sel_pc,                  \* "idle" or "done"
    sel_included,            \* whether the row passed the WHERE clause
    (* the result formatter applied to one fetched row *)
    fmt_row,                 \* the fetched row, row[0] .. row[45]
    fmt_pc,                  \* "idle" or "done"
    fmt_out,                 \* the stock_data dict, or the raised error
    (* GET /api/enhanced-screening, EnhancedAPIFixedV6WithMarginLending *)
    api_args,                \* request.args
    api_schema,              \* columns that exist in table stock_indicators
    pragma_fails,            \* whether PRAGMA table_info raises on this connection
    api_pc,                  \* the statement the request is about to run
    filters,                 \* collect_all_filters(request.args)
    conn,                    \* "none", "open" or "closed"
    credit_columns,          \* the capability map
    api_query,               \* (query, params) of build_screening_query
    api_rows,                \* cursor.fetchall()
    api_results,             \* what _enhanced_screen_stocks_fixed returns
    api_log,                 \* the logger.error records of the request
    api_exc,                 \* the exception in flight, "none" when there is none
    api_failed,              \* the steps that raised during the request
    api_response,            \* (body, HTTP status) returned by the handler
    (* StockAnalyzer.calculate_technical_indicators *)
    df,                      \* the DataFrame, column name -> cells
    df_in,                   \* the DataFrame as it was handed to the call
    ind_pc,                  \* "call" before the call, "returned" after it
    (* GET /api/stocks/<code>/chart *)
    chart_service,           \* module global: "None" or "ready"
    stock_info,              \* what get_stock_info finds: Null or the snapshot
    history,                 \* what get_stock_history finds, newest row first
    repo_error,              \* the repository call that raises, "none" if none
    chart_pc,                \* "idle" or "done"
    chart_data,              \* what generate_chart_data returned
    chart_response,          \* (body, HTTP status) returned by get_stock_chart
    (* AIAnalyzer.analyze_stock and POST /api/ai-analyze *)
    ai_request,              \* "analyze_stock" or "ai_analyze"
    ai_analyzer,             \* module global: "None" or "ready"
    api_key,                 \* whether DEEPSEEK_API_KEY is configured
    ai_info,                 \* what _get_detailed_stock_info finds: Null or the record
    post_body,               \* the body of the POST request
    ai_pc,                   \* "idle" or "done"
    llm_outcome,             \* how the external call ended, "none" when not made
    llm_calls,               \* number of requests.post calls made
    ai_analysis,             \* outcome of _perform_ai_analysis / analyze_screening_results
    ai_result,               \* the dict of analyze_stock, or the endpoint's response
    (* startup and the request handlers of the application *)
    process,                 \* "starting" or "running"
    failed_at,               \* the constructor that raised at startup, 0 for none
    services,                \* the module-level singletons: constructed or None
    handler_pc,              \* per handler thread: "idle", "guarded" or "done"
    handler_request,         \* per handler thread: the request it serves
    handler_response,        \* per handler thread: the response it returned
    handler_conn             \* per handler thread: the connection it opened

screenVars == <<args, stock_data_repository, schema, stock_database, screen_pc,
                conditions, params, query, results, response>>
selVars == <<sel_column, sel_text, sel_min, sel_max, sel_pc, sel_included>>
fmtVars == <<fmt_row, fmt_pc, fmt_out>>

apiVars == <<api_args, api_schema, pragma_fails, api_pc, filters, conn,
             credit_columns, api_query, api_rows, api_results, api_log, api_exc,
             api_failed, api_response>>

indVars == <<df, df_in, ind_pc>>

chartVars == <<chart_service, stock_info, history, repo_error, chart_pc,
               chart_data, chart_response>>

aiVars == <<ai_request, ai_analyzer, api_key, ai_info, post_body, ai_pc,
            llm_outcome, llm_calls, ai_analysis, ai_result>>

svcVars == <<process, failed_at, services, handler_pc, handler_request,
             handler_response, handler_conn>>

vars == <<screenVars, selVars, fmtVars, apiVars, indVars, chartVars, aiVars, svcVars>>

-----------------------------------------------------------------------------
(* Values                                                                  *)

Scale == 10 * 10 * 10 * 10

Null == [t |-> "null", v |-> 0]
Num(n) == [t |-> "num", v |-> n]
Text(s) == [t |-> "text", v |-> s]

IsNull(x) == x.t = "null"
IsNum(x) == x.t = "num"
IsText(x) == x.t = "text"

\* Python truthiness of None, a number or a str
Truthy(x) ==
    CASE IsNull(x) -> FALSE
      [] IsNum(x) -> x.v # 0
      [] IsText(x) -> Len(x.v) > 0

-----------------------------------------------------------------------------
(* Character strings and the conversions applied to them                   *)

Digits == {"0", "1", "2", "3", "4", "5", "6", "7", "8", "9"}

DigitVal(c) ==
    CASE c = "0" -> 0 [] c = "1" -> 1 [] c = "2" -> 2 [] c = "3" -> 3
      [] c = "4" -> 4 [] c = "5" -> 5 [] c = "6" -> 6 [] c = "7" -> 7
      [] c = "8" -> 8 [] c = "9" -> 9

RECURSIVE Pow10(_)
Pow10(n) == IF n = 0 THEN 1 ELSE 10 * Pow10(n - 1)

\* number of consecutive digit characters of s starting at position i
RECURSIVE DigitRun(_, _)
DigitRun(s, i) ==
    IF i <= Len(s) /\ s[i] \in Digits THEN 1 + DigitRun(s, i + 1) ELSE 0

\* value of the n digits of s starting at position i
RECURSIVE DigitsValue(_, _, _)
DigitsValue(s, i, n) ==
    IF n = 0 THEN 0
    ELSE DigitsValue(s, i, n - 1) * 10 + DigitVal(s[i + n - 1])

\* longest prefix of s (from position i) of the form digits [ "." digits ]
\* holding at least one digit: its length and its scaled value
UnsignedPrefix(s, i) ==
    LET a == DigitRun(s, i)
        hasDot == i + a <= Len(s) /\ s[i + a] = "."
        b == IF hasDot THEN DigitRun(s, i + a + 1) ELSE 0
    IN  IF a + b = 0 THEN [len |-> 0, val |-> 0]
        ELSE [len |-> a + (IF hasDot THEN 1 + b ELSE 0),
              val |-> DigitsValue(s, i, a) * Scale
                      + (DigitsValue(s, i + a + 1, b) * Scale) \div Pow10(b)]

HasSign(s) == Len(s) > 0 /\ s[1] \in {"-", "+"}
SignOf(s) == IF Len(s) > 0 /\ s[1] = "-" THEN -1 ELSE 1

\* Python float(str): ok = FALSE stands for ValueError
PyFloat(s) ==
    LET i == IF HasSign(s) THEN 2 ELSE 1
        p == UnsignedPrefix(s, i)
    IN  IF p.len > 0 /\ i + p.len = Len(s) + 1
        THEN [ok |-> TRUE, v |-> SignOf(s) * p.val]
        ELSE [ok |-> FALSE, v |-> 0]

\* Python int(str): ok = FALSE stands for ValueError
PyInt(s) ==
    LET i == IF HasSign(s) THEN 2 ELSE 1
        a == DigitRun(s, i)
    IN  IF a > 0 /\ i + a = Len(s) + 1
        THEN [ok |-> TRUE, v |-> SignOf(s) * DigitsValue(s, i, a) * Scale]
        ELSE [ok |-> FALSE, v |-> 0]

\* str.lower()
LowerChar(c) ==
    CASE c = "T" -> "t" [] c = "R" -> "r" [] c = "U" -> "u" [] c = "E" -> "e"
      [] c = "F" -> "f" [] c = "A" -> "a" [] c = "L" -> "l" [] c = "S" -> "s"
      [] OTHER -> c
Lower(s) == [i \in 1..Len(s) |-> LowerChar(s[i])]

\* str.replace(c, '') and SQL REPLACE(x, c, '') for a one-character pattern
RECURSIVE RemoveChar(_, _)
RemoveChar(s, c) ==
    IF s = <<>> THEN <<>>
    ELSE IF s[1] = c THEN RemoveChar(Tail(s), c)
    ELSE <<s[1]>> \o RemoveChar(Tail(s), c)

\* str.isdigit()
IsDigitStr(s) == Len(s) > 0 /\ \A i \in 1..Len(s) : s[i] \in Digits

-----------------------------------------------------------------------------
(* The store: tables stock_database and stock_indicators                   *)

\* dates are opaque 'YYYY-MM-DD' strings; MAX(date) is their text order
Dates == <<"2024-01-04", "2024-01-05">>
DateRank(d) == CHOOSE i \in 1..Len(Dates) : Dates[i] = d.v[1]
DateText(i) == Text(<<Dates[i]>>)

\* the unit suffix of stored PER/PBR text (one character, U+500D)
Bai == "bai"

R(n) == Num(n * Scale)
Half == Scale \div 2

SdColumns ==
    {"code", "name", "date", "price", "change_amount", "change_percent",
     "volume", "volume_ratio", "market_cap", "per", "pbr", "eps", "bps",
     "industry", "market", "dividend_yield", "margin_buying",
     "margin_selling", "margin_ratio", "yearly_high", "yearly_low",
     "yearly_low_date", "shares_issued", "vwap", "high_price", "low_price",
     "open_price", "jsf_loan_balance", "jsf_stock_lending_balance",
     "jsf_net_balance"}

SiDataColumns ==
    {"price_deviation_20", "price_deviation_100", "volume_deviation_20",
     "volume_deviation_100", "stock_lending_repayment_ratio",
     "jsf_diff_ratio", "short_ratio", "margin_buying_deviation_20",
     "volume_golden_cross", "price_golden_cross", "ma5", "ma25", "ma50",
     "ma75", "rsi14", "margin_buying_volume_ratio"}

\* the optional columns of stock_indicators a deployment may lack
OptionalColumns ==
    {"volume_golden_cross", "price_golden_cross", "short_ratio",
     "jsf_diff_ratio", "stock_lending_repayment_ratio",
     "margin_buying_deviation_20", "margin_buying_volume_ratio"}

\* a stock_database row with every column populated
SdRowFull(code, dateIdx) ==
    [c \in SdColumns |->
        CASE c = "code" -> Text(code)
          [] c = "name" -> Text(<<"n">> \o code)
          [] c = "date" -> DateText(dateIdx)
          [] c = "yearly_low_date" -> DateText(1)
          [] c \in {"industry", "market"} -> Text(<<"a", "b", "c">>)
          [] c = "per" -> Text(<<"2", Bai>>)
          [] c = "pbr" -> Text(<<"1", ".", "5", Bai>>)
          [] c = "eps" -> R(1)
          [] c = "bps" -> R(50)
          [] c = "open_price" -> R(3)
          [] c = "high_price" -> R(6)
          [] c = "low_price" -> R(1)
          [] c = "vwap" -> Num(Scale + Half)
          [] OTHER -> R(2)]

\* a stock_database row in which every column but the key is NULL
SdRowNull(code, dateIdx) ==
    [c \in SdColumns |->
        CASE c = "code" -> Text(code)
          [] c = "name" -> Text(<<"n">> \o code)
          [] c = "date" -> DateText(dateIdx)
          [] OTHER -> Null]

\* a row holding the PER/PBR sentinel, smaller numbers and no margin balance
SdRowSentinel(code, dateIdx) ==
    [c \in SdColumns |->
        CASE c = "code" -> Text(code)
          [] c = "name" -> Text(<<"n">> \o code)
          [] c = "date" -> DateText(dateIdx)
          [] c = "yearly_low_date" -> DateText(1)
          [] c \in {"industry", "market"} -> Text(<<"x">>)
          [] c = "per" -> Text(<<"-">>)
          [] c = "pbr" -> Text(<<"-", "1", ".", "5", Bai>>)
          [] c \in {"eps", "change_amount", "change_percent"} -> R(0)
          [] c \in {"margin_buying", "margin_selling"} -> Null
          [] OTHER -> R(1)]

SiRowFull(code, dateIdx) ==
    [c \in SiDataColumns \cup {"code", "date"} |->
        CASE c = "code" -> Text(code)
          [] c = "date" -> DateText(dateIdx)
          [] c \in {"volume_golden_cross", "price_golden_cross"} -> R(1)
          [] OTHER -> R(2)]

Code1 == <<"1", "0", "0", "1">>
Code2 == <<"2", "0", "0", "2">>
Code3 == <<"3", "0", "0", "3">>

\* the stock_database tables a request may run against
SdTables ==
    { << SdRowFull(Code1, 1), SdRowFull(Code1, 2), SdRowNull(Code2, 2),
         SdRowSentinel(Code3, 2) >>,
      << SdRowFull(Code1, 1), SdRowSentinel(Code3, 1) >> }

stock_indicators == << SiRowFull(Code1, 1), SiRowFull(Code1, 2) >>

\* the stock_indicators schemas a deployment may have
Schemas == { SiDataColumns, SiDataColumns \ OptionalColumns }

-----------------------------------------------------------------------------
(* Requests: the query string of GET /api/enhanced-screening               *)

MaxArgs == 2

IntKeys == {"min_volume", "max_volume", "min_shares_issued", "max_shares_issued"}

FloatKeys ==
    {"min_market_cap", "max_market_cap", "min_per", "max_per", "min_pbr",
     "max_pbr", "min_roe", "max_roe", "min_vwap", "max_vwap",
     "min_dividend_yield", "max_dividend_yield", "min_volume_ratio",
     "max_volume_ratio"}

FlagKeys ==
    {"pattern_vwap_golden_cross", "pattern_upper_shadow",
     "pattern_volume_golden_cross", "margin_lending_only"}

StringKeys == {"market", "sector"}

\* keys the handler reads
RecognizedKeys ==
    IntKeys \cup FloatKeys \cup FlagKeys \cup StringKeys \cup {"is_credit_issue"}

\* keys a client may send; target_date is not read by this handler
Keys == RecognizedKeys \cup {"target_date"}

\* the raw strings a client sends for a key
RawChoices(k) ==
    CASE k \in IntKeys -> { <<"2">>, <<"1", ".", "5">> }
      [] k \in FloatKeys -> { <<"1", ".", "5">>, <<"a", "b", "c">> }
      [] k = "is_credit_issue" -> { <<"1">>, <<"0">>, <<"a", "b", "c">> }
      [] k \in FlagKeys -> { <<"T", "r", "u", "e">>, <<"f", "a", "l", "s", "e">> }
      [] k \in StringKeys -> { <<"a", "b", "c">>, <<>> }
      [] k = "target_date" -> { <<Dates[1]>> }

NoArgs == [k \in {} |-> <<>>]

WithArg(a, k, raw) == [x \in DOMAIN a \cup {k} |-> IF x = k THEN raw ELSE a[x]]

\* the requests carrying at most n keys
RECURSIVE Requests(_)
Requests(n) ==
    IF n = 0 THEN {NoArgs}
    ELSE LET prev == Requests(n - 1)
         IN  prev \cup { WithArg(a, k, raw) :
                           <<a, k, raw>> \in
                             { t \in prev \X Keys \X UNION { RawChoices(k) : k \in Keys } :
                                  /\ t[2] \notin DOMAIN t[1]
                                  /\ t[3] \in RawChoices(t[2]) } }

-----------------------------------------------------------------------------
(* Filter collection (request.args.get)                                    *)

\* request.args.get(key, default)
ArgsGet(a, k, default) == IF k \in DOMAIN a THEN Text(a[k]) ELSE default

\* request.args.get(key, type=int|float): a value the converter rejects
\* (ValueError) yields the default None
ArgsGetTyped(a, k, type) ==
    IF k \notin DOMAIN a THEN Null
    ELSE LET r == IF type = "int" THEN PyInt(a[k]) ELSE PyFloat(a[k])
         IN  IF r.ok THEN Num(r.v) ELSE Null

\* a flag whose default is 'true'
ArgsFlagDefaultTrue(a, k) ==
    Lower(ArgsGet(a, k, Text(<<"t", "r", "u", "e">>)).v) = <<"t", "r", "u", "e">>

\* request.args.get(key, 'false').lower() == 'true'
ArgsFlag(a, k) ==
    Lower(ArgsGet(a, k, Text(<<"f", "a", "l", "s", "e">>)).v) = <<"t", "r", "u", "e">>

\* the local variables the handler reads from the request
CollectFilters(a) ==
    [k \in RecognizedKeys |->
        CASE k \in StringKeys -> ArgsGet(a, k, Text(<<>>))
          [] k \in IntKeys -> ArgsGetTyped(a, k, "int")
          [] k \in FloatKeys -> ArgsGetTyped(a, k, "float")
          [] k = "is_credit_issue" -> ArgsGet(a, k, Null)
          [] k \in FlagKeys -> IF ArgsFlag(a, k) THEN Num(1) ELSE Num(0)]

-----------------------------------------------------------------------------
(* SQL text.  A statement is a sequence of tokens; a column reference is   *)
(* the two tokens <<"sd.", column>> or <<"si.", column>>.                  *)

Sd(col) == <<"sd.", col>>
Si(col) == <<"si.", col>>

RoeExpr ==
    <<"CASE", "WHEN">> \o Sd("eps") \o <<"!=", "0", "AND">> \o Sd("bps")
    \o <<"!=", "0", "THEN", "(">> \o Sd("eps") \o <<"/">> \o Sd("bps")
    \o <<"*", "100", ")", "ELSE", "NULL", "END">>

\* the projection, in the order the formatter unpacks it (row[0] .. row[45])
SelectItems ==
    << Sd("code"), Sd("name"), Sd("date"), Sd("price"), Sd("change_amount"),
       Sd("change_percent"), Sd("volume"), Sd("volume_ratio"),
       Sd("market_cap"), Sd("per"), Sd("pbr"), RoeExpr, Sd("industry"),
       Sd("industry"), Sd("market"), Sd("dividend_yield"),
       Sd("margin_buying"), Sd("margin_selling"), Sd("margin_ratio"),
       Sd("yearly_high"), Sd("yearly_low"), Sd("yearly_low_date"),
       Sd("shares_issued"), Sd("vwap"), Sd("high_price"), Sd("low_price"),
       Sd("open_price"), Si("price_deviation_20"), Si("price_deviation_100"),
       Si("volume_deviation_20"), Si("volume_deviation_100"),
       Si("stock_lending_repayment_ratio"), Si("jsf_diff_ratio"),
       Si("short_ratio"), Si("margin_buying_deviation_20"),
       Si("volume_golden_cross"), Si("price_golden_cross"), Si("ma5"),
       Si("ma25"), Si("ma50"), Si("ma75"), Si("rsi14"),
       Si("margin_buying_volume_ratio"), Sd("jsf_loan_balance"),
       Sd("jsf_stock_lending_balance"), Sd("jsf_net_balance") >>

FromJoin ==
    <<"FROM", "stock_database", "sd", "LEFT", "JOIN", "stock_indicators", "si",
      "ON">> \o Sd("code") \o <<"=">> \o Si("code") \o <<"AND">> \o Sd("date")
    \o <<"=">> \o Si("date")

\* WHERE sd.date = (SELECT MAX(date) FROM stock_database)
AnchorLatest ==
    Sd("date") \o <<"=", "(", "SELECT", "MAX(date)", "FROM", "stock_database", ")">>

\* the predicates the handler appends
RangeCond(col, op) == Sd(col) \o <<op, "?">>

CastCond(col, op) ==
    <<"CAST(", "REPLACE(", "REPLACE(">> \o Sd(col)
    \o <<",", "'bai'", ",", "''", ")", ",", "'-'", ",", "''", ")", "AS", "REAL",
         ")", op, "?">>

RoeCond(op) == <<"(">> \o RoeExpr \o <<")", op, "?">>

CreditCond ==
    <<"(", "CASE", "WHEN">> \o Sd("margin_buying") \o <<"IS", "NOT", "NULL", "OR">>
    \o Sd("margin_selling")
    \o <<"IS", "NOT", "NULL", "THEN", "1", "ELSE", "0", "END", ")", "=", "?">>

VwapGcCond ==
    Sd("vwap") \o <<"IS", "NOT", "NULL", "AND">> \o Sd("price") \o <<">">>
    \o Sd("vwap")

UpperShadowCond ==
    <<"(">> \o Sd("high_price") \o <<"-", "CASE", "WHEN">> \o Sd("open_price")
    \o <<">">> \o Sd("price") \o <<"THEN">> \o Sd("open_price") \o <<"ELSE">>
    \o Sd("price") \o <<"END", ")", ">", "ABS(">> \o Sd("price") \o <<"-">>
    \o Sd("open_price") \o <<")", "*", "2">>

BearishCond == Sd("price") \o <<"<">> \o Sd("open_price")

VolumeGcCond == Si("volume_golden_cross") \o <<"=", "1">>

MarginLendingCond ==
    <<"(">> \o Sd("margin_buying") \o <<"IS", "NOT", "NULL", "OR">>
    \o Sd("margin_selling") \o <<"IS", "NOT", "NULL", ")">>

\* number of '?' placeholders in a token sequence
Placeholders(text) == Cardinality({ i \in 1..Len(text) : text[i] = "?" })

\* the stock_indicators columns a token sequence references
ReferencedSiColumns(text) ==
    { text[i + 1] : i \in { j \in 1..(Len(text) - 1) : text[j] = "si." } }

RECURSIVE Flatten(_, _)
Flatten(seqs, sep) ==
    IF seqs = <<>> THEN <<>>
    ELSE IF Len(seqs) = 1 THEN seqs[1]
    ELSE seqs[1] \o sep \o Flatten(Tail(seqs), sep)

\* the statement as one token sequence: a query is kept as its projection and
\* the conjuncts of its WHERE clause, which ' AND '.join glues together
QueryText(q) ==
    <<"SELECT">> \o Flatten(q.select, <<",">>) \o FromJoin \o <<"WHERE">>
    \o Flatten(q.where, <<"AND">>)

-----------------------------------------------------------------------------
(* Query construction: the conditions / params lists of enhanced_screening *)

\* conditions.append(text); the entry remembers the filter that added it
AppendCondition(acc, key, text) ==
    [acc EXCEPT !.conditions = Append(@, [filter |-> key, text |-> text])]

\* a parameter bound ahead of the ones already collected
PrependParam(acc, key, val) ==
    [acc EXCEPT !.params = <<[filter |-> key, val |-> val]>> \o @]

\* params.append(value); the entry remembers the filter that added it
AppendParam(acc, key, val) ==
    [acc EXCEPT !.params = Append(@, [filter |-> key, val |-> val])]

RECURSIVE AppendConditions(_, _, _)
AppendConditions(acc, key, texts) ==
    IF texts = <<>> THEN acc
    ELSE AppendConditions(AppendCondition(acc, key, texts[1]), key, Tail(texts))

\* the filter blocks in source order: the local variable tested, how it is
\* tested, the predicate(s) appended and what is bound to the placeholder
FilterBlocks ==
    << [key |-> "market", test |-> "truthy", bind |-> "value",
        conds |-> <<RangeCond("market", "=")>>],
       [key |-> "sector", test |-> "truthy", bind |-> "value",
        conds |-> <<RangeCond("industry", "=")>>],
       [key |-> "min_volume", test |-> "not_none", bind |-> "value",
        conds |-> <<RangeCond("volume", ">=")>>],
       [key |-> "max_volume", test |-> "not_none", bind |-> "value",
        conds |-> <<RangeCond("volume", "<=")>>],
       [key |-> "min_market_cap", test |-> "not_none", bind |-> "value",
        conds |-> <<RangeCond("market_cap", ">=")>>],
       [key |-> "max_market_cap", test |-> "not_none", bind |-> "value",
        conds |-> <<RangeCond("market_cap", "<=")>>],
       [key |-> "min_per", test |-> "not_none", bind |-> "value",
        conds |-> <<CastCond("per", ">=")>>],
       [key |-> "max_per", test |-> "not_none", bind |-> "value",
        conds |-> <<CastCond("per", "<=")>>],
       [key |-> "min_pbr", test |-> "not_none", bind |-> "value",
        conds |-> <<CastCond("pbr", ">=")>>],
       [key |-> "max_pbr", test |-> "not_none", bind |-> "value",
        conds |-> <<CastCond("pbr", "<=")>>],
       [key |-> "min_roe", test |-> "not_none", bind |-> "value",
        conds |-> <<RoeCond(">=")>>],
       [key |-> "max_roe", test |-> "not_none", bind |-> "value",
        conds |-> <<RoeCond("<=")>>],
       [key |-> "is_credit_issue", test |-> "not_none", bind |-> "int",
        conds |-> <<CreditCond>>],
       [key |-> "min_vwap", test |-> "not_none", bind |-> "value",
        conds |-> <<RangeCond("vwap", ">=")>>],
       [key |-> "max_vwap", test |-> "not_none", bind |-> "value",
        conds |-> <<RangeCond("vwap", "<=")>>],
       [key |-> "min_dividend_yield", test |-> "not_none", bind |-> "value",
        conds |-> <<RangeCond("dividend_yield", ">=")>>],
       [key |-> "max_dividend_yield", test |-> "not_none", bind |-> "value",
        conds |-> <<RangeCond("dividend_yield", "<=")>>],
       [key |-> "min_volume_ratio", test |-> "not_none", bind |-> "value",
        conds |-> <<RangeCond("volume_ratio", ">=")>>],
       [key |-> "max_volume_ratio", test |-> "not_none", bind |-> "value",
        conds |-> <<RangeCond("volume_ratio", "<=")>>],
       [key |-> "min_shares_issued", test |-> "not_none", bind |-> "value",
        conds |-> <<RangeCond("shares_issued", ">=")>>],
       [key |-> "max_shares_issued", test |-> "not_none", bind |-> "value",
        conds |-> <<RangeCond("shares_issued", "<=")>>],
       [key |-> "pattern_vwap_golden_cross", test |-> "truthy", bind |-> "none",
        conds |-> <<VwapGcCond>>],
       [key |-> "pattern_upper_shadow", test |-> "truthy", bind |-> "none",
        conds |-> <<UpperShadowCond, BearishCond>>],
       [key |-> "pattern_volume_golden_cross", test |-> "truthy", bind |-> "none",
        conds |-> <<VolumeGcCond>>],
       [key |-> "margin_lending_only", test |-> "truthy", bind |-> "none",
        conds |-> <<MarginLendingCond>>] >>

\* one `if <filter>: conditions.append(...); params.append(...)` block;
\* raised records the ValueError of int(is_credit_issue)
ApplyBlock(acc, b, f) ==
    LET val == f[b.key]
        present == IF b.test = "truthy" THEN Truthy(val) ELSE ~IsNull(val)
        withConds == AppendConditions(acc, b.key, b.conds)
    IN  IF acc.raised \/ ~present THEN acc
        ELSE CASE b.bind = "none" -> withConds
               [] b.bind = "value" -> AppendParam(withConds, b.key, val)
               [] b.bind = "int" ->
                    LET r == PyInt(val.v)
                    IN  IF r.ok THEN AppendParam(withConds, b.key, Num(r.v))
                        ELSE [withConds EXCEPT !.raised = TRUE]

RECURSIVE ApplyBlocks(_, _, _)
ApplyBlocks(acc, blocks, f) ==
    IF blocks = <<>> THEN acc
    ELSE ApplyBlocks(ApplyBlock(acc, blocks[1], f), Tail(blocks), f)

\* conditions = []; params = []; then every filter block in turn
BuildConditions(f) ==
    ApplyBlocks([conditions |-> <<>>, params |-> <<>>, raised |-> FALSE],
                FilterBlocks, f)

\* the base query, with " AND " + " AND ".join(conditions) when conditions
BuildQuery(conds) ==
    [select |-> SelectItems,
     where |-> <<AnchorLatest>> \o [i \in 1..Len(conds) |-> conds[i].text]]

-----------------------------------------------------------------------------
(* Query execution (DatabaseConnector.execute_query on SQLite)             *)

\* a comparison is TRUE only when SQL evaluates it to true: a NULL operand
\* makes it NULL, which a WHERE clause rejects
SqlCmp(a, op, b) ==
    IF IsNull(a) \/ IsNull(b) THEN FALSE
    ELSE CASE IsNum(a) /\ IsNum(b) ->
                (CASE op = "=" -> a.v = b.v
                   [] op = ">=" -> a.v >= b.v
                   [] op = "<=" -> a.v <= b.v
                   [] op = ">" -> a.v > b.v
                   [] op = "<" -> a.v < b.v)
           [] IsText(a) /\ IsText(b) /\ op = "=" -> a.v = b.v
           \* storage classes: every number sorts before every text
           [] IsNum(a) /\ IsText(b) -> op \in {"<=", "<"}
           [] IsText(a) /\ IsNum(b) -> op \in {">=", ">"}

\* REPLACE(x, c, '') on a text or NULL value
SqlReplace(x, c) == IF IsNull(x) THEN Null ELSE Text(RemoveChar(x.v, c))

\* CAST(x AS REAL): the longest numeric prefix of a text, 0.0 when none
SqlCastReal(x) ==
    CASE IsNull(x) -> Null
      [] IsNum(x) -> x
      [] IsText(x) ->
            LET i == IF HasSign(x.v) THEN 2 ELSE 1
                p == UnsignedPrefix(x.v, i)
            IN  Num(IF p.len = 0 THEN 0 ELSE SignOf(x.v) * p.val)

\* CAST(REPLACE(REPLACE(col, unit, ''), '-', '') AS REAL)
StrippedCast(x) == SqlCastReal(SqlReplace(SqlReplace(x, Bai), "-"))

\* CASE WHEN sd.bps != 0 THEN (sd.eps / sd.bps * 100) ELSE NULL END: the guard
\* on the divisor alone
RoeValue_bps_guard_only(jr) ==
    LET eps == jr.sd["eps"]
        bps == jr.sd["bps"]
    IN  IF IsNum(eps) /\ IsNum(bps) /\ bps.v # 0
        THEN Num(((eps.v * Scale) \div bps.v) * 100)
        ELSE Null

\* CASE WHEN sd.eps != 0 AND sd.bps != 0 THEN (sd.eps / sd.bps * 100) ELSE NULL END
RoeValue(jr) ==
    LET eps == jr.sd["eps"]
        bps == jr.sd["bps"]
    IN  IF IsNum(eps) /\ IsNum(bps) /\ eps.v # 0 /\ bps.v # 0
        THEN Num(((eps.v * Scale) \div bps.v) * 100)
        ELSE Null

Abs(n) == IF n < 0 THEN -n ELSE n

\* SELECT MAX(date) FROM stock_database
RECURSIVE MaxDate(_)
MaxDate(db) ==
    IF db = <<>> THEN Null
    ELSE LET rest == MaxDate(Tail(db))
             d == db[1]["date"]
         IN  IF IsNull(rest) \/ DateRank(d) > DateRank(rest) THEN d ELSE rest

\* stock_database LEFT JOIN stock_indicators ON code AND date, in table order
SiNullRow == [c \in SiDataColumns \cup {"code", "date"} |-> Null]

Matches(sd, si) ==
    SelectSeq(si, LAMBDA r : r["code"] = sd["code"] /\ r["date"] = sd["date"])

RECURSIVE JoinedRows(_, _)
JoinedRows(db, si) ==
    IF db = <<>> THEN <<>>
    ELSE LET m == Matches(db[1], si)
             here == IF m = <<>> THEN << [sd |-> db[1], si |-> SiNullRow] >>
                     ELSE [i \in 1..Len(m) |-> [sd |-> db[1], si |-> m[i]]]
         IN  here \o JoinedRows(Tail(db), si)

Col(jr, tbl, col) == IF tbl = "sd." THEN jr.sd[col] ELSE jr.si[col]

\* one projected expression evaluated on a joined row
EvalItem(item, jr) ==
    IF item = RoeExpr THEN RoeValue(jr) ELSE Col(jr, item[1], item[2])

\* one conjunct of the WHERE clause evaluated on a joined row; bound holds
\* the values bound to the conjunct's own placeholders
EvalConjunct(text, jr, bound, db) ==
    LET price == jr.sd["price"]
        open == jr.sd["open_price"]
        high == jr.sd["high_price"]
        vwap == jr.sd["vwap"]
        lending == ~IsNull(jr.sd["margin_buying"]) \/ ~IsNull(jr.sd["margin_selling"])
    IN  CASE text = AnchorLatest -> SqlCmp(jr.sd["date"], "=", MaxDate(db))
          [] Len(text) = 4 /\ text[4] = "?" ->
                SqlCmp(Col(jr, text[1], text[2]), text[3], bound[1])
          [] text[1] = "CAST(" ->
                SqlCmp(StrippedCast(Col(jr, text[4], text[5])), text[Len(text) - 1],
                       bound[1])
          [] text \in {RoeCond(">="), RoeCond("<=")} ->
                SqlCmp(RoeValue(jr), text[Len(text) - 1], bound[1])
          [] text = CreditCond ->
                SqlCmp(IF lending THEN R(1) ELSE R(0), "=", bound[1])
          [] text = VwapGcCond -> ~IsNull(vwap) /\ SqlCmp(price, ">", vwap)
          [] text = UpperShadowCond ->
                /\ IsNum(price) /\ IsNum(open) /\ IsNum(high)
                /\ high.v - (IF open.v > price.v THEN open.v ELSE price.v)
                     > Abs(price.v - open.v) * 2
          [] text = BearishCond -> SqlCmp(price, "<", open)
          [] text = VolumeGcCond ->
                SqlCmp(jr.si["volume_golden_cross"], "=", R(1))
          [] text = MarginLendingCond -> lending

\* number of placeholders in the conjuncts before the j-th
RECURSIVE Offset(_, _)
Offset(where, j) ==
    IF j <= 1 THEN 0 ELSE Offset(where, j - 1) + Placeholders(where[j - 1])

RowPasses(q, ps, jr, db) ==
    \A j \in 1..Len(q.where) :
        EvalConjunct(q.where[j], jr,
                     SubSeq(ps, Offset(q.where, j) + 1,
                            Offset(q.where, j) + Placeholders(q.where[j])),
                     db)

\* cursor.execute(query, params); cursor.fetchall().  raised: sqlite3.Error
\* (a column the schema lacks, or a wrong number of bindings), which
\* execute_query logs and re-raises
execute_query(q, ps, db, schm) ==
    LET text == QueryText(q)
        joined == JoinedRows(db, stock_indicators)
        hits == SelectSeq(joined, LAMBDA jr : RowPasses(q, ps, jr, db))
    IN  IF ~(ReferencedSiColumns(text) \subseteq schm \cup {"code", "date"})
        THEN [raised |-> TRUE, error |-> "no such column", rows |-> <<>>]
        ELSE IF Placeholders(text) # Len(ps)
        THEN [raised |-> TRUE, error |-> "Incorrect number of bindings", rows |-> <<>>]
        ELSE [raised |-> FALSE, error |-> "",
              rows |-> [i \in 1..Len(hits) |->
                          [k \in 1..Len(q.select) |-> EvalItem(q.select[k], hits[i])]]]

-----------------------------------------------------------------------------
(* Result formatting: the stock_data dict built from each fetched row      *)

\* float(x): a number converts; a str is parsed and may raise ValueError
PyFloatOf(x) ==
    IF IsNum(x) THEN [ok |-> TRUE, v |-> x]
    ELSE LET r == PyFloat(x.v) IN [ok |-> r.ok, v |-> Num(r.v)]

\* int(x): a number is truncated toward zero; a str is parsed and may raise
PyIntOf(x) ==
    IF IsNum(x)
    THEN [ok |-> TRUE,
          v |-> Num(IF x.v >= 0 THEN (x.v \div Scale) * Scale
                    ELSE -(((-x.v) \div Scale) * Scale))]
    ELSE LET r == PyInt(x.v) IN [ok |-> r.ok, v |-> Num(r.v)]

\* str(x).replace('.', '').replace('-', '').isdigit(); the decimal text of a
\* number always passes
LooksNumeric(x) ==
    IF IsNum(x) THEN TRUE
    ELSE IsDigitStr(RemoveChar(RemoveChar(x.v, "."), "-"))

\* the conversion applied to one column; ok = FALSE is a raised ValueError
Coerce(rule, x) ==
    CASE rule = "raw" -> [ok |-> TRUE, v |-> x]
      [] rule = "float_or_none" ->
            IF Truthy(x) THEN PyFloatOf(x) ELSE [ok |-> TRUE, v |-> Null]
      [] rule = "float_or_zero" ->
            IF Truthy(x) THEN PyFloatOf(x) ELSE [ok |-> TRUE, v |-> Num(0)]
      [] rule = "int_or_none" ->
            IF Truthy(x) THEN PyIntOf(x) ELSE [ok |-> TRUE, v |-> Null]
      [] rule = "int_or_zero" ->
            IF Truthy(x) THEN PyIntOf(x) ELSE [ok |-> TRUE, v |-> Num(0)]
      [] rule = "numeric_text" ->
            IF Truthy(x) /\ LooksNumeric(x) THEN PyFloatOf(x)
            ELSE [ok |-> TRUE, v |-> Null]

\* the keys of stock_data in positional order: key k reads row[k - 1]
FormatFields ==
    << [name |-> "code", rule |-> "raw"],
       [name |-> "name", rule |-> "raw"],
       [name |-> "stock_date", rule |-> "raw"],
       [name |-> "price", rule |-> "float_or_none"],
       [name |-> "change_amount", rule |-> "float_or_zero"],
       [name |-> "change_percent", rule |-> "float_or_zero"],
       [name |-> "volume", rule |-> "int_or_zero"],
       [name |-> "volume_ratio", rule |-> "float_or_none"],
       [name |-> "market_cap", rule |-> "float_or_none"],
       [name |-> "per", rule |-> "numeric_text"],
       [name |-> "pbr", rule |-> "numeric_text"],
       [name |-> "roe", rule |-> "float_or_none"],
       [name |-> "sector", rule |-> "raw"],
       [name |-> "industry", rule |-> "raw"],
       [name |-> "market", rule |-> "raw"],
       [name |-> "dividend_yield", rule |-> "float_or_none"],
       [name |-> "margin_buying", rule |-> "int_or_none"],
       [name |-> "margin_selling", rule |-> "int_or_none"],
       [name |-> "margin_ratio", rule |-> "float_or_none"],
       [name |-> "yearly_high", rule |-> "float_or_none"],
       [name |-> "yearly_low", rule |-> "float_or_none"],
       [name |-> "yearly_low_date", rule |-> "raw"],
       [name |-> "shares_issued", rule |-> "int_or_none"],
       [name |-> "vwap", rule |-> "float_or_none"],
       [name |-> "high", rule |-> "float_or_none"],
       [name |-> "low", rule |-> "float_or_none"],
       [name |-> "open", rule |-> "float_or_none"],
       [name |-> "price_deviation_20", rule |-> "float_or_none"],
       [name |-> "price_deviation_100", rule |-> "float_or_none"],
       [name |-> "volume_deviation_20", rule |-> "float_or_none"],
       [name |-> "volume_deviation_100", rule |-> "float_or_none"],
       [name |-> "stock_lending_repayment_ratio", rule |-> "float_or_none"],
       [name |-> "jsf_diff_ratio", rule |-> "float_or_none"],
       [name |-> "short_ratio", rule |-> "float_or_none"],
       [name |-> "margin_buying_deviation_20", rule |-> "float_or_none"],
       [name |-> "volume_golden_cross", rule |-> "int_or_zero"],
       [name |-> "price_golden_cross", rule |-> "int_or_zero"],
       [name |-> "ma5", rule |-> "float_or_none"],
       [name |-> "ma25", rule |-> "float_or_none"],
       [name |-> "ma50", rule |-> "float_or_none"],
       [name |-> "ma75", rule |-> "float_or_none"],
       [name |-> "rsi14", rule |-> "float_or_none"],
       [name |-> "margin_buying_volume_ratio", rule |-> "float_or_none"],
       [name |-> "jsf_loan_balance", rule |-> "int_or_none"],
       [name |-> "jsf_stock_lending_balance", rule |-> "int_or_none"],
       [name |-> "jsf_net_balance", rule |-> "int_or_none"] >>

FieldNames == { FormatFields[k].name : k \in 1..Len(FormatFields) }
FieldIndex == [n \in FieldNames |->
                 CHOOSE k \in 1..Len(FormatFields) : FormatFields[k].name = n]

\* stock_data for one row; ok = FALSE when a conversion raised
FormatRow(row) ==
    LET out == [k \in 1..Len(FormatFields) |-> Coerce(FormatFields[k].rule, row[k])]
    IN  [ok |-> \A k \in 1..Len(FormatFields) : out[k].ok,
         rec |-> [n \in FieldNames |-> out[FieldIndex[n]].v]]

-----------------------------------------------------------------------------
(* The handler GET /api/enhanced-screening (enhanced_screening)            *)

NoQuery == [select |-> <<>>, where |-> <<>>]
NoResponse == [code |-> 0, body |-> [status |-> "none"]]

ParamValues(ps) == [i \in 1..Len(ps) |-> ps[i].val]

ErrorResponse(details) ==
    [code |-> 500,
     body |-> [status |-> "error", error |-> "screening failed", details |-> details]]

SuccessResponse(stocks) ==
    [code |-> 200,
     body |-> [status |-> "success", data |-> stocks, count |-> Len(stocks)]]

NotInitialized ==
    [code |-> 503, body |-> [status |-> "none", error |-> "not initialized"]]

ScreenInit ==
    /\ args \in Requests(MaxArgs)
    /\ \/ /\ stock_data_repository = "ready"
          /\ schema \in Schemas
          /\ stock_database \in SdTables
       \/ \* initialize_services failed: there is no store to speak of
          /\ stock_data_repository = "None"
          /\ schema = {}
          /\ stock_database = <<>>
    /\ screen_pc = "idle"
    /\ conditions = <<>>
    /\ params = <<>>
    /\ query = NoQuery
    /\ results = <<>>
    /\ response = NoResponse

\* what one request leaves behind: the lists built, the statement, the rows
\* fetched and the response
Outcome(c, p, q, rs, resp) ==
    [conditions |-> c, params |-> p, query |-> q, results |-> rs, response |-> resp]

\* lines 1530-1588: format every row and answer; a row that cannot be
\* converted raises into the outer except clause
Formatted(b, q, ex) ==
    IF ex.raised
    THEN Outcome(b.conditions, b.params, q, <<>>, ErrorResponse(ex.error))
    ELSE CHOOSE h \in
           { IF \E i \in 1..Len(fm) : ~fm[i].ok
             THEN Outcome(b.conditions, b.params, q, ex.rows, ErrorResponse("ValueError"))
             ELSE Outcome(b.conditions, b.params, q, ex.rows,
                          SuccessResponse([i \in 1..Len(fm) |-> fm[i].rec]))
             : fm \in { [i \in 1..Len(ex.rows) |-> FormatRow(ex.rows[i])] } } : TRUE

\* lines 1523-1527: complete the statement and execute it
Executed(b, db, schm) ==
    IF b.raised
    THEN Outcome(b.conditions, b.params, NoQuery, <<>>, ErrorResponse("ValueError"))
    ELSE CHOOSE h \in
           { Formatted(b, q, execute_query(q, ParamValues(b.params), db, schm))
             : q \in { BuildQuery(b.conditions) } } : TRUE

\* the handler body: collect the filters, build the statement, execute it,
\* format the rows, answer; any exception ends in the 500 response of the
\* outer except clause
Handle(a, repo, schm, db) ==
    IF repo = "None"
    THEN Outcome(<<>>, <<>>, NoQuery, <<>>, NotInitialized)
    ELSE CHOOSE h \in
           { Executed(b, db, schm) : b \in { BuildConditions(CollectFilters(a)) } } : TRUE

\* GET /api/enhanced-screening
enhanced_screening ==
    /\ screen_pc = "idle"
    /\ screen_pc' = "done"
    /\ \E h \in { Handle(args, stock_data_repository, schema, stock_database) } :
           /\ conditions' = h.conditions
           /\ params' = h.params
           /\ query' = h.query
           /\ results' = h.results
           /\ response' = h.response
    /\ UNCHANGED <<args, stock_data_repository, schema, stock_database>>

ScreenNext == enhanced_screening /\ UNCHANGED <<selVars, fmtVars, apiVars, indVars, chartVars, aiVars, svcVars>>

ScreenIdle ==
    /\ args = NoArgs
    /\ stock_data_repository = "ready"
    /\ schema = SiDataColumns
    /\ stock_database = <<>>
    /\ screen_pc = "off"
    /\ conditions = <<>>
    /\ params = <<>>
    /\ query = NoQuery
    /\ results = <<>>
    /\ response = NoResponse

-----------------------------------------------------------------------------
(* The PER / PBR range predicates on stored text                           *)

MaxPerLen == 4

PerAlphabet == {"1", "5", ".", Bai, "-"}

\* every text of at most n characters
RECURSIVE Strings(_)
Strings(n) ==
    IF n = 0 THEN {<<>>}
    ELSE LET prev == Strings(n - 1)
         IN  prev \cup { Append(t, c) : t \in prev, c \in PerAlphabet }

\* the bounds a client supplies
MinChoices == {Null, R(1), R(10)}
MaxChoices == {Null, R(5), R(20)}

SelInit ==
    /\ sel_column \in {"per", "pbr"}
    /\ sel_text \in Strings(MaxPerLen)
    /\ sel_min \in MinChoices
    /\ sel_max \in MaxChoices
    /\ sel_pc = "idle"
    /\ sel_included = FALSE

SelIdle ==
    /\ sel_column = "per"
    /\ sel_text = <<>>
    /\ sel_min = Null
    /\ sel_max = Null
    /\ sel_pc = "off"
    /\ sel_included = FALSE

\* the handler's locals when only the bounds of one column were supplied
RangeFilters(col, lo, hi) ==
    [k \in RecognizedKeys |->
        CASE k = (IF col = "per" THEN "min_per" ELSE "min_pbr") -> lo
          [] k = (IF col = "per" THEN "max_per" ELSE "max_pbr") -> hi
          [] OTHER -> CollectFilters(NoArgs)[k]]

\* the handler's statement for those bounds, run on a table of one row that
\* stores the text: did the row come back?
RowSelected(col, text, lo, hi) ==
    LET b == BuildConditions(RangeFilters(col, lo, hi))
        row == [SdRowFull(Code1, 2) EXCEPT ![col] = Text(text)]
        ex == execute_query(BuildQuery(b.conditions), ParamValues(b.params),
                            <<row>>, SiDataColumns)
    IN  ~ex.raised /\ Len(ex.rows) = 1

screen_by_range ==
    /\ sel_pc = "idle"
    /\ sel_pc' = "done"
    /\ sel_included' = RowSelected(sel_column, sel_text, sel_min, sel_max)
    /\ UNCHANGED <<sel_column, sel_text, sel_min, sel_max>>

SelNext == screen_by_range /\ UNCHANGED <<screenVars, fmtVars, apiVars, indVars, chartVars, aiVars, svcVars>>

-----------------------------------------------------------------------------
(* The result formatter on one fetched row                                 *)

MaxOverrides == 1

\* positions of the key columns code, name, stock_date
KeyPositions == {1, 2, 3}
OptionalPositions == (1..Len(FormatFields)) \ KeyPositions
OptionalFields == { FormatFields[k].name : k \in OptionalPositions }

\* what a cell of a fetched row may hold
CellValues ==
    { Null, Num(0), R(2), Num(2 * Scale + Half), Text(<<>>),
      Text(<<"2">>), Text(<<"1", ".", "5", Bai>>), Text(<<"-">>) }

KeyCells == <<Text(Code1), Text(<<"n">>), DateText(2)>>

\* a row whose optional cells all hold v
UniformRow(v) ==
    [k \in 1..Len(FormatFields) |-> IF k \in KeyPositions THEN KeyCells[k] ELSE v]

\* the rows that differ from a uniform row in at most n cells
RECURSIVE FetchedRows(_)
FetchedRows(n) ==
    IF n = 0 THEN { UniformRow(v) : v \in {Null, Num(0), R(2)} }
    ELSE LET prev == FetchedRows(n - 1)
         IN  prev \cup { [r EXCEPT ![k] = v] :
                           r \in prev, k \in OptionalPositions, v \in CellValues }

FmtInit ==
    /\ fmt_row \in FetchedRows(MaxOverrides)
    /\ fmt_pc = "idle"
    /\ fmt_out = [ok |-> TRUE, rec |-> <<>>]

FmtIdle ==
    /\ fmt_row = <<>>
    /\ fmt_pc = "off"
    /\ fmt_out = [ok |-> TRUE, rec |-> <<>>]

format_row ==
    /\ fmt_pc = "idle"
    /\ fmt_pc' = "done"
    /\ fmt_out' = FormatRow(fmt_row)
    /\ UNCHANGED fmt_row

FmtNext == format_row /\ UNCHANGED <<screenVars, selVars, apiVars, indVars, chartVars, aiVars, svcVars>>

-----------------------------------------------------------------------------
(* The enhanced API: enhanced_screen_stocks and                             *)
(* _enhanced_screen_stocks_fixed, one action per statement that can raise   *)

\* the column names _check_credit_indicator_columns looks for
ProbedColumns ==
    {"stock_lending_repayment_ratio", "jsf_diff_ratio", "short_ratio",
     "margin_buying_deviation_20", "volume_golden_cross", "price_golden_cross",
     "vwap_golden_cross", "margin_buying_volume_ratio", "margin_category"}

ApiSchemas ==
    { SiDataColumns \cup {"vwap_golden_cross", "margin_category"},
      SiDataColumns,
      SiDataColumns \ {"volume_golden_cross"},
      SiDataColumns \ OptionalColumns }

ApiRequests ==
    { a \in Requests(2) : DOMAIN a \subseteq {"target_date", "pattern_volume_golden_cross"} }

EmptyMap == [c \in {} |-> FALSE]

LogError(log, where, cause) == Append(log, [at |-> where, cause |-> cause])

\* the probe with its try/except removed: the error of PRAGMA propagates
check_credit_indicator_columns_unguarded(log, fails, columns) ==
    IF fails THEN [raised |-> TRUE, map |-> EmptyMap, log |-> log]
    ELSE [raised |-> FALSE, map |-> [c \in ProbedColumns |-> c \in columns], log |-> log]

\* _check_credit_indicator_columns: PRAGMA table_info(stock_indicators) and a
\* membership test per known column; on any exception the error is logged and
\* the empty dict returned
check_credit_indicator_columns(log, fails, columns) ==
    IF fails
    THEN [raised |-> FALSE, map |-> EmptyMap, log |-> LogError(log, "probe", "probe")]
    ELSE [raised |-> FALSE, map |-> [c \in ProbedColumns |-> c \in columns], log |-> log]

\* FilterProcessor.collect_all_filters: the target date and the pattern flag
\* of the request (the other filters are not needed here)
collect_all_filters(a) ==
    [target_date |-> ArgsGet(a, "target_date", Null),
     pattern_volume_golden_cross |-> ArgsFlag(a, "pattern_volume_golden_cross")]

\* dict.get(column): a missing key is falsy
Capable(map, c) == c \in DOMAIN map /\ map[c]

\* QueryBuilder.build_screening_query: the base projection without the
\* optional columns the capability map does not confirm, anchored at the
\* target date when one is supplied and at the latest date otherwise, with
\* the golden-cross predicate only when its column is confirmed
build_screening_query(flt, map) ==
    LET keep(item) == ~(item[1] = "si." /\ item[2] \in OptionalColumns
                        /\ ~Capable(map, item[2]))
        gc == IF flt.pattern_volume_golden_cross /\ Capable(map, "volume_golden_cross")
              THEN <<VolumeGcCond>> ELSE <<>>
    IN  IF IsNull(flt.target_date)
        THEN [query |-> [select |-> SelectSeq(SelectItems, keep),
                         where |-> <<AnchorLatest>> \o gc],
              params |-> <<>>]
        ELSE [query |-> [select |-> SelectSeq(SelectItems, keep),
                         where |-> <<RangeCond("date", "=")>> \o gc],
              params |-> <<flt.target_date>>]

\* DataFormatter.format_screening_results, reduced to the identifying fields
format_screening_results(rows) ==
    [i \in 1..Len(rows) |-> [code |-> rows[i][1], stock_date |-> rows[i][3]]]

ApiTable == CHOOSE t \in SdTables : Len(t) = 4

NoApiQuery == [query |-> NoQuery, params |-> <<>>]

ApiInit ==
    /\ api_args \in ApiRequests
    /\ api_schema \in ApiSchemas
    /\ pragma_fails \in BOOLEAN
    /\ api_pc = "collect_all_filters"
    /\ filters = [target_date |-> Null, pattern_volume_golden_cross |-> FALSE]
    /\ conn = "none"
    /\ credit_columns = EmptyMap
    /\ api_query = NoApiQuery
    /\ api_rows = <<>>
    /\ api_results = <<>>
    /\ api_log = <<>>
    /\ api_exc = "none"
    /\ api_failed = {}
    /\ api_response = NoResponse

ApiIdle ==
    /\ api_args = NoArgs
    /\ api_schema = {}
    /\ pragma_fails = FALSE
    /\ api_pc = "off"
    /\ filters = [target_date |-> Null, pattern_volume_golden_cross |-> FALSE]
    /\ conn = "none"
    /\ credit_columns = EmptyMap
    /\ api_query = NoApiQuery
    /\ api_rows = <<>>
    /\ api_results = <<>>
    /\ api_log = <<>>
    /\ api_exc = "none"
    /\ api_failed = {}
    /\ api_response = NoResponse

\* a call into code that may raise: the exception is api_exc, the step joins
\* api_failed and control passes to the handler `to`
Raise(step, to) ==
    /\ api_exc' = step
    /\ api_failed' = api_failed \cup {step}
    /\ api_pc' = to

\* line 85: filters = self.filter_processor.collect_all_filters(request.args)
ApiCollectFilters ==
    /\ api_pc = "collect_all_filters"
    /\ \/ /\ filters' = collect_all_filters(api_args)
          /\ api_pc' = "get_db_connection"
          /\ UNCHANGED <<api_exc, api_failed>>
       \/ /\ Raise("collect_all_filters", "outer_except")
          /\ UNCHANGED filters
    /\ UNCHANGED <<api_args, api_schema, pragma_fails, conn, credit_columns,
                   api_query, api_rows, api_results, api_log, api_response>>

\* lines 125-127: conn = self.get_db_connection(); if conn is None: return []
ApiGetConnection ==
    /\ api_pc = "get_db_connection"
    /\ \/ /\ conn' = "open"
          /\ api_pc' = "probe"
          /\ UNCHANGED <<api_exc, api_failed>>
       \/ /\ api_pc' = "respond"
          /\ UNCHANGED <<conn, api_exc, api_failed>>
       \/ /\ Raise("get_db_connection", "outer_except")
          /\ UNCHANGED conn
    /\ UNCHANGED <<api_args, api_schema, pragma_fails, filters, credit_columns,
                   api_query, api_rows, api_results, api_log, api_response>>

\* line 131: credit_columns = self._check_credit_indicator_columns(conn)
ApiProbe ==
    /\ api_pc = "probe"
    /\ LET r == check_credit_indicator_columns(api_log, pragma_fails, api_schema)
       IN  /\ api_log' = r.log
           /\ IF r.raised
              THEN /\ Raise("probe", "except")
                   /\ UNCHANGED credit_columns
              ELSE /\ credit_columns' = r.map
                   /\ api_pc' = "check_filter_types"
                   /\ api_failed' = IF pragma_fails THEN api_failed \cup {"probe"}
                                    ELSE api_failed
                   /\ UNCHANGED api_exc
    /\ UNCHANGED <<api_args, api_schema, pragma_fails, filters, conn, api_query,
                   api_rows, api_results, api_response>>

\* line 135: filter_types = self.filter_processor.check_filter_types(filters)
ApiCheckFilterTypes ==
    /\ api_pc = "check_filter_types"
    /\ \/ /\ api_pc' = "build"
          /\ UNCHANGED <<api_exc, api_failed>>
       \/ Raise("check_filter_types", "except")
    /\ UNCHANGED <<api_args, api_schema, pragma_fails, filters, conn,
                   credit_columns, api_query, api_rows, api_results, api_log,
                   api_response>>

\* lines 138-140: query, params = self.query_builder.build_screening_query(...)
ApiBuild ==
    /\ api_pc = "build"
    /\ \/ /\ api_query' = build_screening_query(filters, credit_columns)
          /\ api_pc' = "execute"
          /\ UNCHANGED <<api_exc, api_failed>>
       \/ /\ Raise("build", "except")
          /\ UNCHANGED api_query
    /\ UNCHANGED <<api_args, api_schema, pragma_fails, filters, conn,
                   credit_columns, api_rows, api_results, api_log, api_response>>

\* lines 154-155: cursor = conn.execute(query, params); rows = cursor.fetchall()
ApiExecute ==
    /\ api_pc = "execute"
    /\ LET ex == execute_query(api_query.query, api_query.params, ApiTable, api_schema)
       IN  \/ /\ ~ex.raised
              /\ api_rows' = ex.rows
              /\ api_pc' = "format"
              /\ UNCHANGED <<api_exc, api_failed>>
           \/ \* a missing column, a locked or unreadable database
              /\ Raise("execute", "except")
              /\ UNCHANGED api_rows
    /\ UNCHANGED <<api_args, api_schema, pragma_fails, filters, conn,
                   credit_columns, api_query, api_results, api_log, api_response>>

\* lines 158-161: results = self.data_formatter.format_screening_results(rows);
\* return results
ApiFormat ==
    /\ api_pc = "format"
    /\ \/ /\ api_results' = format_screening_results(api_rows)
          /\ api_pc' = "finally"
          /\ UNCHANGED <<api_exc, api_failed>>
       \/ /\ Raise("format", "except")
          /\ UNCHANGED api_results
    /\ UNCHANGED <<api_args, api_schema, pragma_fails, filters, conn,
                   credit_columns, api_query, api_rows, api_log, api_response>>

\* an except clause that logs and lets the exception travel on
except_clause_reraising(log, exc) ==
    [log |-> LogError(log, "query", exc), results |-> <<>>, exc |-> exc]

\* lines 163-166: except Exception as e: log the error; return []
except_clause(log, exc) ==
    [log |-> LogError(log, "query", exc), results |-> <<>>, exc |-> "none"]

ApiExcept ==
    /\ api_pc = "except"
    /\ LET r == except_clause(api_log, api_exc)
       IN  /\ api_log' = r.log
           /\ api_results' = r.results
           /\ api_exc' = r.exc
    /\ api_pc' = "finally"
    /\ UNCHANGED <<api_args, api_schema, pragma_fails, filters, conn,
                   credit_columns, api_query, api_rows, api_failed, api_response>>

\* lines 167-168: finally: conn.close()
ApiFinally ==
    /\ api_pc = "finally"
    /\ conn' = "closed"
    /\ api_pc' = IF api_exc = "none" THEN "respond" ELSE "outer_except"
    /\ UNCHANGED <<api_args, api_schema, pragma_fails, filters, credit_columns,
                   api_query, api_rows, api_results, api_log, api_exc, api_failed,
                   api_response>>

\* lines 92-97: the success body with the results, status 200
ApiRespond ==
    /\ api_pc = "respond"
    /\ api_response' = [code |-> 200,
                        body |-> [status |-> "success", data |-> api_results,
                                  filters |-> filters, count |-> Len(api_results)]]
    /\ api_pc' = "done"
    /\ UNCHANGED <<api_args, api_schema, pragma_fails, filters, conn,
                   credit_columns, api_query, api_rows, api_results, api_log,
                   api_exc, api_failed>>

\* lines 98-104: except Exception as e: log; body {status: error, message}, 500
ApiOuterExcept ==
    /\ api_pc = "outer_except"
    /\ api_log' = LogError(api_log, "handler", api_exc)
    /\ api_response' = [code |-> 500,
                        body |-> [status |-> "error", message |-> api_exc]]
    /\ api_exc' = "none"
    /\ api_pc' = "done"
    /\ UNCHANGED <<api_args, api_schema, pragma_fails, filters, conn,
                   credit_columns, api_query, api_rows, api_results, api_failed>>

ApiNext ==
    /\ \/ ApiCollectFilters
       \/ ApiGetConnection
       \/ ApiProbe
       \/ ApiCheckFilterTypes
       \/ ApiBuild
       \/ ApiExecute
       \/ ApiFormat
       \/ ApiExcept
       \/ ApiFinally
       \/ ApiRespond
       \/ ApiOuterExcept
    /\ UNCHANGED <<screenVars, selVars, fmtVars, indVars, chartVars, aiVars, svcVars>>

-----------------------------------------------------------------------------
(* StockAnalyzer.calculate_technical_indicators: a DataFrame is a function  *)
(* from column name to a sequence of cells; numbers are fixed-point         *)

MaxHistory == 6

NaN == [t |-> "nan", v |-> 0]
IsNaN(x) == x.t = "nan"

IndicatorColumns ==
    {"ma5", "ma20", "ma25", "ma50", "ma75", "bb_middle", "bb_upper", "bb_lower",
     "rsi", "macd", "signal", "histogram", "volume_ma5", "volume_ma20"}

HistoryColumns == {"date", "close", "volume", "high", "low", "open", "vwap"}

\* cell arithmetic: NaN is contagious
CellAdd(a, b) == IF IsNaN(a) \/ IsNaN(b) THEN NaN ELSE Num(a.v + b.v)
CellSub(a, b) == IF IsNaN(a) \/ IsNaN(b) THEN NaN ELSE Num(a.v - b.v)
CellTwice(a) == IF IsNaN(a) THEN NaN ELSE Num(2 * a.v)
ColAdd(xs, ys) == [i \in 1..Len(xs) |-> CellAdd(xs[i], ys[i])]
ColSub(xs, ys) == [i \in 1..Len(xs) |-> CellSub(xs[i], ys[i])]
ColTwice(xs) == [i \in 1..Len(xs) |-> CellTwice(xs[i])]

\* the sum taken over the frame in the order it was fetched, newest first
RECURSIVE WindowSum_unsorted(_, _, _)
WindowSum_unsorted(xs, from, to) ==
    IF from > to THEN 0
    ELSE IF from = to THEN xs[Len(xs) + 1 - to].v
    ELSE WindowSum_unsorted(xs, from, (from + to) \div 2)
         + WindowSum_unsorted(xs, ((from + to) \div 2) + 1, to)

\* the sum of the window's observations
RECURSIVE WindowSum(_, _, _)
WindowSum(xs, from, to) ==
    IF from > to THEN 0
    ELSE IF from = to THEN xs[to].v
    ELSE WindowSum(xs, from, (from + to) \div 2)
         + WindowSum(xs, ((from + to) \div 2) + 1, to)

WindowHasNaN(xs, from, to) == \E j \in from..to : IsNaN(xs[j])

\* rolling(window=w, min_periods=1).mean(): a value from the first row on
RollingMean_min_periods_one(xs, w) ==
    [i \in 1..Len(xs) |->
        IF i < w THEN Num(WindowSum(xs, 1, i) \div i)
        ELSE Num(WindowSum(xs, i - w + 1, i) \div w)]

\* Series.rolling(window=w).mean(): NaN until w observations are in the window
RollingMean(xs, w) ==
    [i \in 1..Len(xs) |->
        IF i < w \/ WindowHasNaN(xs, i - w + 1, i) THEN NaN
        ELSE Num(WindowSum(xs, i - w + 1, i) \div w)]

\* the integer square root of n, searched between lo and hi
RECURSIVE ISqrtBetween(_, _, _)
ISqrtBetween(n, lo, hi) ==
    IF lo >= hi THEN lo
    ELSE IF ((lo + hi + 1) \div 2) * ((lo + hi + 1) \div 2) > n
    THEN ISqrtBetween(n, lo, ((lo + hi + 1) \div 2) - 1)
    ELSE ISqrtBetween(n, (lo + hi + 1) \div 2, hi)

ISqrt(n) == ISqrtBetween(n, 0, IF n < 46340 THEN n ELSE 46340)

RECURSIVE SquaredDeviations(_, _, _, _)
SquaredDeviations(xs, mean, from, to) ==
    IF from > to THEN 0
    ELSE ((xs[to].v - mean) \div 100) * ((xs[to].v - mean) \div 100)
         + SquaredDeviations(xs, mean, from, to - 1)

\* Series.rolling(window=w).std(): the sample standard deviation
RollingStd(xs, w) ==
    [i \in 1..Len(xs) |->
        IF i < w \/ WindowHasNaN(xs, i - w + 1, i) THEN NaN
        ELSE LET mean == WindowSum(xs, i - w + 1, i) \div w
             IN  Num(100 * ISqrt(SquaredDeviations(xs, mean, i - w + 1, i)
                                  \div (w - 1)))]

\* Series.diff()
Diff(xs) == [i \in 1..Len(xs) |-> IF i = 1 THEN NaN ELSE CellSub(xs[i], xs[i - 1])]

\* delta.where(delta > 0, 0) and -delta.where(delta < 0, 0)
Gains(delta) ==
    [i \in 1..Len(delta) |->
        IF ~IsNaN(delta[i]) /\ delta[i].v > 0 THEN delta[i] ELSE Num(0)]
Losses(delta) ==
    [i \in 1..Len(delta) |->
        IF ~IsNaN(delta[i]) /\ delta[i].v < 0 THEN Num(-delta[i].v) ELSE Num(0)]

\* 100 - (100 / (1 + gain / loss)), with the float rules for a zero loss
RsiCell(gain, loss) ==
    IF IsNaN(gain) \/ IsNaN(loss) THEN NaN
    ELSE IF loss.v = 0 THEN (IF gain.v = 0 THEN NaN ELSE Num(100 * Scale))
    ELSE Num(((100 * 100 * (gain.v \div 100)) \div ((gain.v + loss.v) \div 100)) * 100)

\* y[1] = x[1], y[i] = y[i-1] + alpha * (x[i] - y[i-1]) with alpha = 2 / (span + 1)
\* ys holds y[1..from-1]; the rows from..to are appended, the first half before
\* the second
RECURSIVE EwmUpTo(_, _, _, _, _)
EwmUpTo(xs, span, ys, from, to) ==
    IF from > to THEN ys
    ELSE IF from = to
    THEN Append(ys, IF from = 1 THEN Num(xs[1].v)
                    ELSE Num(ys[from - 1].v
                             + (2 * (xs[from].v - ys[from - 1].v)) \div (span + 1)))
    ELSE CHOOSE r \in
           { EwmUpTo(xs, span, half, ((from + to) \div 2) + 1, to)
             : half \in { EwmUpTo(xs, span, ys, from, (from + to) \div 2) } } : TRUE

\* Series.ewm(span=span, adjust=False).mean(), the input column taken once
Ewm(xs, span) ==
    CHOOSE r \in { EwmUpTo(c, span, <<>>, 1, Len(c)) : c \in { xs \o <<>> } } : TRUE

\* lines 294-323: the assignments df['ma5'] = ... to df['volume_ma20'] = ...
assign_indicator_columns(d) ==
    LET close == d["close"]
        ma20 == RollingMean(close, 20)
        std == RollingStd(close, 20)
        delta == Diff(close)
        gain == RollingMean(Gains(delta), 14)
        loss == RollingMean(Losses(delta), 14)
        macd == ColSub(Ewm(close, 12), Ewm(close, 26))
        signal == Ewm(macd, 9)
    IN  [c \in DOMAIN d \cup IndicatorColumns |->
            CASE c = "ma5" -> RollingMean(close, 5)
              [] c = "ma20" -> ma20
              [] c = "ma25" -> RollingMean(close, 25)
              [] c = "ma50" -> RollingMean(close, 50)
              [] c = "ma75" -> RollingMean(close, 75)
              [] c = "bb_middle" -> ma20
              [] c = "bb_upper" -> ColAdd(ma20, ColTwice(std))
              [] c = "bb_lower" -> ColSub(ma20, ColTwice(std))
              [] c = "rsi" -> [i \in 1..Len(close) |-> RsiCell(gain[i], loss[i])]
              [] c = "macd" -> macd
              [] c = "signal" -> signal
              [] c = "histogram" -> ColSub(macd, signal)
              [] c = "volume_ma5" -> RollingMean(d["volume"], 5)
              [] c = "volume_ma20" -> RollingMean(d["volume"], 20)
              [] OTHER -> d[c]]

\* the length test off by one: a frame of 4 observations is computed
calculate_technical_indicators_from_four(d) ==
    IF Len(d["close"]) < 4 THEN d
    ELSE assign_indicator_columns(d)

\* if len(df) < 5: return df; otherwise the indicator columns are assigned
calculate_technical_indicators(d) ==
    IF Len(d["close"]) < 5 THEN d
    ELSE assign_indicator_columns(d)

\* one observation: (close, volume)
Observations == { <<1, 2>>, <<2, 1>>, <<3, 3>> }

RECURSIVE Histories(_)
Histories(n) ==
    IF n = 0 THEN { <<>> }
    ELSE Histories(n - 1)
         \cup { Append(h, o) : h \in { g \in Histories(n - 1) : Len(g) = n - 1 },
                               o \in Observations }

\* pd.DataFrame(history, columns=[date, close, volume, high, low, open, vwap])
DataFrame(h) ==
    [c \in HistoryColumns |->
        [i \in 1..Len(h) |->
            CASE c = "date" -> Num(i)
              [] c = "volume" -> Num(h[i][2])
              [] c = "high" -> R(h[i][1] + 1)
              [] c = "low" -> R(h[i][1] - 1)
              [] OTHER -> R(h[i][1])]]

NoFrame == [c \in {} |-> <<>>]

IndInit ==
    /\ df \in { DataFrame(h) : h \in Histories(MaxHistory) }
    /\ df_in = df
    /\ ind_pc = "call"

MaxPeriod == 3

\* the day-to-day changes of the close: down, unchanged, up
Steps == {0 - 1, 0, 1}

\* the lengths at which the windows of 14, 20, 25, 50 and 75 fill
SeriesLengths == {14, 15, 21, 30, 76}

\* the changes repeated in turn, each pattern of at most MaxPeriod changes
StepPatterns == UNION { [1..k -> Steps] : k \in 1..MaxPeriod }

RECURSIVE StepSum(_, _)
StepSum(p, k) == IF k = 0 THEN 0 ELSE p[k] + StepSum(p, k - 1)

CloseAt(p, i) ==
    100 + ((i - 1) \div Len(p)) * StepSum(p, Len(p)) + StepSum(p, (i - 1) % Len(p))

\* a history of n observations in ascending date order following pattern p
PatternHistory(p, n) == [i \in 1..n |-> <<CloseAt(p, i), 2>>]

LongInit ==
    /\ df \in { DataFrame(PatternHistory(p, n)) : p \in StepPatterns, n \in SeriesLengths }
    /\ df_in = df
    /\ ind_pc = "call"

IndIdle ==
    /\ df = NoFrame
    /\ df_in = NoFrame
    /\ ind_pc = "off"

\* df = self.stock_analyzer.calculate_technical_indicators(df)
CalculateIndicators ==
    /\ ind_pc = "call"
    /\ df' = calculate_technical_indicators(df)
    /\ ind_pc' = "returned"
    /\ UNCHANGED df_in

IndNext == CalculateIndicators /\ UNCHANGED <<screenVars, selVars, fmtVars, apiVars, chartVars, aiVars, svcVars>>

-----------------------------------------------------------------------------
(* ChartService.generate_chart_data and GET /api/stocks/<code>/chart        *)

\* the snapshots get_stock_info may return (None when the instrument has no
\* row at the latest date)
StockInfos ==
    { Null,
      [price |-> R(2), change |-> Null, change_percent |-> R(1), date |-> Num(9)],
      [price |-> Null, change |-> R(1), change_percent |-> Null, date |-> Num(9)] }

RepoErrors == {"none", "get_stock_info", "get_stock_history"}

\* df.sort_values('date') on rows fetched ORDER BY date DESC
SortValues(rows) == [i \in 1..Len(rows) |-> rows[Len(rows) + 1 - i]]

\* float(v) if v else 0
FloatOrZero(x) == IF Truthy(x) THEN x ELSE Num(0)

\* [float(v) if pd.notna(v) else None for v in df[col]]
NotNaOrNone(cells) ==
    [i \in 1..Len(cells) |-> IF IsNaN(cells[i]) THEN Null ELSE cells[i]]

\* a chart section: the dates and one data list per column
Series(d, cols) ==
    [dates |-> d["date"],
     series |-> [k \in 1..Len(cols) |-> [name |-> cols[k], data |-> NotNaOrNone(d[cols[k]])]]]

\* the latest value of a column, None when it is NaN
Latest(d, col) == NotNaOrNone(d[col])[Len(d[col])]

\* bool(close > ma) if pd.notna(ma) else None; True is 1 and False is 0
PriceAbove(d, col) ==
    IF IsNaN(d[col][Len(d[col])]) THEN Null
    ELSE IF d["close"][Len(d["close"])].v > d[col][Len(d[col])].v THEN Num(1) ELSE Num(0)

ChartSections ==
    {"stock_info", "candlestick", "volume", "line_chart", "ma_golden_cross",
     "bollinger_bands", "rsi", "macd", "technical"}

\* the index label iterrows() yields for the row at position i of the sorted
\* frame: the history is fetched newest first and labelled 0, 1, ... in that
\* order, and sort_values keeps each row's label
IndexLabel(n, i) == n - i

\* df.iloc[k]: the row at 0-based position k of the sorted frame
Iloc(cells, k) == cells[k + 1]

\* '#00B050' if idx > 0 and row['close'] >= df.iloc[idx-1]['close'] else
\* '#FF0000', idx being the row's index label
VolumeColor(d, i) ==
    LET idx == IndexLabel(Len(d["close"]), i)
    IN  IF idx > 0 /\ d["close"][i].v >= Iloc(d["close"], idx - 1).v
        THEN "#00B050" ELSE "#FF0000"

\* lines 355-505: the chart_data dict built from the snapshot and the frame
chart_dict(info, d) ==
    LET n == Len(d["date"])
        ma20 == d["volume_ma20"][n]
    IN  [stock_info |->
            [price |-> FloatOrZero(info.price), change |-> FloatOrZero(info.change),
             change_percent |-> FloatOrZero(info.change_percent),
             last_update |-> info.date],
         candlestick |->
            [i \in 1..n |->
                [date |-> d["date"][i], open |-> FloatOrZero(d["open"][i]),
                 high |-> FloatOrZero(d["high"][i]), low |-> FloatOrZero(d["low"][i]),
                 close |-> FloatOrZero(d["close"][i])]],
         volume |->
            [i \in 1..n |->
                [date |-> d["date"][i], volume |-> FloatOrZero(d["volume"][i]),
                 color |-> VolumeColor(d, i)]],
         line_chart |-> Series(d, <<"close", "ma5", "ma25", "ma50", "ma75">>),
         ma_golden_cross |->
            Series(d, <<"close", "vwap", "ma5", "volume_ma5", "volume_ma20">>),
         bollinger_bands |-> Series(d, <<"bb_upper", "bb_middle", "bb_lower">>),
         rsi |-> Series(d, <<"rsi">>),
         macd |-> Series(d, <<"macd", "signal", "histogram">>),
         technical |->
            [rsi |-> Latest(d, "rsi"), macd |-> Latest(d, "macd"),
             signal |-> Latest(d, "signal"), upper |-> Latest(d, "bb_upper"),
             middle |-> Latest(d, "bb_middle"), lower |-> Latest(d, "bb_lower"),
             price |-> Latest(d, "close"),
             price_above_ma25 |-> PriceAbove(d, "ma25"),
             price_above_ma50 |-> PriceAbove(d, "ma50"),
             price_above_ma75 |-> PriceAbove(d, "ma75"),
             volume_ratio |->
                IF ~IsNaN(ma20) /\ ma20.v > 0
                THEN Num((d["volume"][n].v * Scale) \div ma20.v) ELSE Null]]

\* generate_chart_data: None when the snapshot or the history is missing, and
\* None from the except clause when a repository call raises or a column the
\* chart reads (df['ma5'], ...) is not in the frame
generate_chart_data(info, hist, err) ==
    IF err = "get_stock_info" \/ info = Null THEN Null
    ELSE IF err = "get_stock_history" \/ hist = <<>> THEN Null
    ELSE CHOOSE c \in
           { IF IndicatorColumns \subseteq DOMAIN d THEN chart_dict(info, d) ELSE Null
             : d \in { calculate_technical_indicators(DataFrame(SortValues(hist))) } }
           : TRUE

\* the endpoint without its `if chart_data:` test: whatever was generated is
\* sent as a success
get_stock_chart_untested(service, info, hist, err) ==
    IF service = "None"
    THEN [data |-> Null,
          response |-> [code |-> 503, body |-> [status |-> "error", error |-> "not initialized"]]]
    ELSE CHOOSE r \in
           { [data |-> c, response |-> [code |-> 200, body |-> [status |-> "success", data |-> c]]]
             : c \in { generate_chart_data(info, hist, err) } } : TRUE

\* get_stock_chart: 503 without the service, 200 with the chart, 404 without
get_stock_chart(service, info, hist, err) ==
    IF service = "None"
    THEN [data |-> Null,
          response |-> [code |-> 503, body |-> [status |-> "error", error |-> "not initialized"]]]
    ELSE CHOOSE r \in
           { IF c # Null
             THEN [data |-> c, response |-> [code |-> 200, body |-> [status |-> "success", data |-> c]]]
             ELSE [data |-> c,
                   response |-> [code |-> 404, body |-> [status |-> "error", error |-> "not found"]]]
             : c \in { generate_chart_data(info, hist, err) } } : TRUE

ChartInit ==
    /\ chart_service \in {"None", "ready"}
    /\ stock_info \in StockInfos
    /\ history \in Histories(MaxHistory)
    /\ repo_error \in RepoErrors
    /\ chart_pc = "idle"
    /\ chart_data = Null
    /\ chart_response = NoResponse

ChartIdle ==
    /\ chart_service = "ready"
    /\ stock_info = Null
    /\ history = <<>>
    /\ repo_error = "none"
    /\ chart_pc = "off"
    /\ chart_data = Null
    /\ chart_response = NoResponse

\* GET /api/stocks/<code>/chart
GetStockChart ==
    /\ chart_pc = "idle"
    /\ chart_pc' = "done"
    /\ \E r \in { get_stock_chart(chart_service, stock_info, history, repo_error) } :
           /\ chart_data' = r.data
           /\ chart_response' = r.response
    /\ UNCHANGED <<chart_service, stock_info, history, repo_error>>

ChartNext ==
    GetStockChart /\ UNCHANGED <<screenVars, selVars, fmtVars, apiVars, indVars, aiVars, svcVars>>

-----------------------------------------------------------------------------
(* AIAnalyzer: single-instrument and batch narratives.  A narrative is the  *)
(* sequence of its parts; a part that prints a number carries the number    *)

MaxResults == 2

\* a key the dict does not hold
Missing == [t |-> "missing", v |-> 0]

\* dict.get(key, 0)
GetOrZero(x) == IF x = Missing THEN Num(0) ELSE x

\* x > n and x < n on Python values: None or str against a number is a
\* TypeError
Comparable(x) == IsNum(x)

Part(k, n) == [k |-> k, v |-> n]

\* the records _get_detailed_stock_info may return, reduced to the fields the
\* rule-based narrative reads; per is the stored text or a number
DetailedInfos ==
    { [price |-> pr, ma25 |-> ma, rsi |-> rs, per |-> pe, volume_ratio |-> vr] :
        pr \in {R(2)}, ma \in {Null, R(1), R(3)},
        rs \in {Null, R(0), R(20), R(50), R(80)},
        pe \in {Null, Text(<<>>), Text(<<"1", "2", ".", "5", Bai>>), Text(<<"-">>),
                R(10), R(25), R(40)},
        vr \in {Null, R(40), R(120), R(200)} }

\* `x and x > n` / `x and x < n`
AndGt(x, n) == Truthy(x) /\ x.v > n * Scale
AndLt(x, n) == Truthy(x) /\ x.v < n * Scale

\* _get_demo_analysis: the rule-based narrative of one record; raised is the
\* TypeError of comparing a str with a number
get_demo_analysis(info) ==
    LET up == Truthy(info.price) /\ Truthy(info.ma25) /\ info.price.v > info.ma25.v
        trend == IF up THEN <<Part("trend_up", 0)>>
                 ELSE IF Truthy(info.price) /\ Truthy(info.ma25)
                 THEN <<Part("trend_down", 0)>> ELSE <<>>
        rsi == IF AndGt(info.rsi, 70) THEN <<Part("rsi_overbought", 0)>>
               ELSE IF AndLt(info.rsi, 30) THEN <<Part("rsi_oversold", 0)>>
               ELSE IF Truthy(info.rsi) THEN <<Part("rsi_neutral", 0)>> ELSE <<>>
        per == IF AndLt(info.per, 15) THEN <<Part("per_low", 0)>>
               ELSE IF AndGt(info.per, 30) THEN <<Part("per_high", 0)>> ELSE <<>>
        vol == IF AndGt(info.volume_ratio, 150) THEN <<Part("volume_up", 0)>>
               ELSE IF AndLt(info.volume_ratio, 50) THEN <<Part("volume_low", 0)>>
               ELSE <<>>
        buy_signals ==
            (IF up THEN 1 ELSE 0) + (IF AndLt(info.rsi, 70) THEN 1 ELSE 0)
            + (IF AndLt(info.per, 20) THEN 1 ELSE 0)
            + (IF AndGt(info.volume_ratio, 100) THEN 1 ELSE 0)
        verdict == IF buy_signals >= 3 THEN "buy"
                   ELSE IF buy_signals >= 2 THEN "neutral" ELSE "wait"
    IN  IF \E f \in {"ma25", "rsi", "per", "volume_ratio"} :
              Truthy(info[f]) /\ ~Comparable(info[f])
        THEN [raised |-> TRUE, text |-> <<>>]
        ELSE [raised |-> FALSE,
              text |-> trend \o rsi \o per \o vol
                       \o <<Part(verdict, buy_signals), Part("disclaimer", 0)>>]

LlmOutcomes == {"ok", "timeout", "exception", "non200", "malformed"}

LlmContent == <<Part("llm", 0)>>

\* _perform_ai_analysis: the fallback without a key; with a key one call,
\* whose content is returned on 200 and replaced by the fallback otherwise
perform_ai_analysis(key, info, outcome) ==
    IF ~key THEN [a |-> get_demo_analysis(info), calls |-> 0]
    ELSE IF outcome = "ok"
    THEN [a |-> [raised |-> FALSE, text |-> LlmContent], calls |-> 1]
    ELSE [a |-> get_demo_analysis(info), calls |-> 1]

\* analyze_stock: error when the record is missing or anything raised
analyze_stock(key, info, outcome) ==
    IF info = Null
    THEN [a |-> [raised |-> FALSE, text |-> <<>>], calls |-> 0,
          result |-> [status |-> "error", error |-> "not found"]]
    ELSE CHOOSE r \in
           { [a |-> p.a, calls |-> p.calls,
              result |-> IF p.a.raised
                         THEN [status |-> "error", error |-> "analysis failed"]
                         ELSE [status |-> "success", analysis |-> p.a.text]]
             : p \in { perform_ai_analysis(key, info, outcome) } } : TRUE

\* one screening result as the client posts it, reduced to the two keys the
\* fallback reads; a key may be absent or null
ResultEntries ==
    { [change_percent |-> c, volume_ratio |-> v] :
        c \in {Missing, Null, R(0) , R(3), Num(12345), Num(0 - 15000)},
        v \in {Missing, Null, R(100), R(200)} }

\* a JSON array
List(xs) == [t |-> "list", v |-> xs]

ResultLists ==
    { List(xs) : xs \in UNION { [1..n -> ResultEntries] : n \in 0..MaxResults } }

\* round(numer / denom) to the nearest integer, halves away from zero
RoundDiv(numer, denom) ==
    IF numer >= 0 THEN (2 * numer + denom) \div (2 * denom)
    ELSE 0 - ((2 * (0 - numer) + denom) \div (2 * denom))

RECURSIVE SumValues(_)
SumValues(xs) ==
    IF xs = <<>> THEN 0 ELSE Head(xs).v + SumValues(Tail(xs))

\* sorted(..., key=change_percent or 0, reverse=True): stable, descending
RECURSIVE InsertDescending(_, _)
InsertDescending(x, xs) ==
    IF xs = <<>> THEN <<x>>
    ELSE IF GetOrZero(x.change_percent).v > GetOrZero(Head(xs).change_percent).v
    THEN <<x>> \o xs
    ELSE <<Head(xs)>> \o InsertDescending(x, Tail(xs))

RECURSIVE SortedDescending(_)
SortedDescending(xs) ==
    IF xs = <<>> THEN <<>>
    ELSE InsertDescending(xs[Len(xs)], SortedDescending(SubSeq(xs, 1, Len(xs) - 1)))

\* the first n elements, xs[:n]
Take(xs, n) == SubSeq(xs, 1, IF Len(xs) < n THEN Len(xs) ELSE n)

\* _get_demo_screening_analysis: count, mean change, rising count, the three
\* top gainers and the high-volume results; raised is the TypeError of
\* comparing None with a number
get_demo_screening_analysis(q, screening_results) ==
    LET n == Len(screening_results)
        change_values ==
            SelectSeq([i \in 1..n |-> screening_results[i].change_percent],
                      LAMBDA c : c # Missing /\ c # Null)
        avg_change ==
            IF change_values = <<>> THEN 0
            ELSE RoundDiv(SumValues(change_values) * 100, Len(change_values) * Scale)
        positive_count ==
            Cardinality({ i \in 1..n :
                            GetOrZero(screening_results[i].change_percent).v > 0 })
        top_gainers == Take(SortedDescending(screening_results), 3)
        high_volume ==
            SelectSeq(screening_results,
                      LAMBDA r : GetOrZero(r.volume_ratio).v > 150 * Scale)
        statistics ==
            <<Part("avg_change", avg_change), Part("positive_count", positive_count),
              Part("positive_percent", RoundDiv(positive_count * 1000, n))>>
        gainers ==
            [i \in 1..Len(top_gainers) |->
                Part("top_gainer",
                     RoundDiv(GetOrZero(top_gainers[i].change_percent).v * 100, Scale))]
        volumes ==
            IF high_volume = <<>> THEN <<>>
            ELSE <<Part("high_volume_count", Len(high_volume))>>
                 \o [i \in 1..Len(Take(high_volume, 3)) |->
                        Part("high_volume", RoundDiv(high_volume[i].volume_ratio.v, Scale))]
    IN  IF \E i \in 1..n : \/ screening_results[i].change_percent = Null
                           \/ screening_results[i].volume_ratio = Null
        THEN [raised |-> TRUE, text |-> <<>>]
        ELSE [raised |-> FALSE,
              text |-> <<Part("demo_header", 0), Part("count", n)>>
                       \o (IF n = 0 THEN <<>> ELSE statistics \o gainers \o volumes)
                       \o <<Part("demo_footer", 0)>>]

NoTargetMessage == <<Part("no_target", 0)>>

TimeoutMessage == <<Part("timed_out", 0)>>

\* analyze_screening_results: no call without results or without a key; the
\* content on a well-formed 200, the timeout message on a timeout, and the
\* fallback otherwise
analyze_screening_results(key, q, screening_results, outcome) ==
    IF screening_results = <<>>
    THEN [a |-> [raised |-> FALSE, text |-> NoTargetMessage], calls |-> 0]
    ELSE IF ~key
    THEN [a |-> get_demo_screening_analysis(q, screening_results), calls |-> 0]
    ELSE IF outcome = "ok"
    THEN [a |-> [raised |-> FALSE, text |-> LlmContent], calls |-> 1]
    ELSE IF outcome = "timeout"
    THEN [a |-> [raised |-> FALSE, text |-> TimeoutMessage], calls |-> 1]
    ELSE [a |-> get_demo_screening_analysis(q, screening_results), calls |-> 1]

NoAnalysis == [raised |-> FALSE, text |-> <<Part("none", 0)>>]

\* the bodies a client may post: not a JSON object, or an object whose query
\* and screening_results keys may be absent or empty
PostBodies ==
    {Null} \cup
    { [query |-> q, screening_results |-> rs] :
        q \in {Missing, Text(<<>>), Text(<<"q">>)},
        rs \in {Missing} \cup ResultLists }

\* the endpoint with its two validations in the other order
ai_analyze_screening_results_results_first(analyzer, key, body, outcome) ==
    IF analyzer = "None"
    THEN [a |-> NoAnalysis, calls |-> 0,
          result |-> [code |-> 503, success |-> FALSE, analysis |-> <<>>]]
    ELSE IF body = Null
    THEN [a |-> NoAnalysis, calls |-> 0,
          result |-> [code |-> 500, success |-> FALSE, analysis |-> <<>>]]
    ELSE IF body.screening_results \in {Missing, List(<<>>)}
    THEN [a |-> NoAnalysis, calls |-> 0,
          result |-> [code |-> 400, success |-> FALSE, analysis |-> <<>>,
                      message |-> "screening_results"]]
    ELSE IF ~Truthy(IF body.query = Missing THEN Text(<<>>) ELSE body.query)
    THEN [a |-> NoAnalysis, calls |-> 0,
          result |-> [code |-> 400, success |-> FALSE, analysis |-> <<>>,
                      message |-> "query"]]
    ELSE CHOOSE r \in
           { [a |-> p.a, calls |-> p.calls,
              result |-> IF p.a.raised
                         THEN [code |-> 500, success |-> FALSE, analysis |-> <<>>]
                         ELSE [code |-> 200, success |-> TRUE, analysis |-> p.a.text]]
             : p \in { analyze_screening_results(key, body.query,
                                                 body.screening_results.v, outcome) } }
           : TRUE

\* POST /api/ai-analyze: 503 without the analyzer, 500 when the body is not a
\* JSON object (data.get raises), 400 for a falsy query and then for a falsy
\* result list, otherwise the analysis
ai_analyze_screening_results(analyzer, key, body, outcome) ==
    IF analyzer = "None"
    THEN [a |-> NoAnalysis, calls |-> 0,
          result |-> [code |-> 503, success |-> FALSE, analysis |-> <<>>]]
    ELSE IF body = Null
    THEN [a |-> NoAnalysis, calls |-> 0,
          result |-> [code |-> 500, success |-> FALSE, analysis |-> <<>>]]
    ELSE IF ~Truthy(IF body.query = Missing THEN Text(<<>>) ELSE body.query)
    THEN [a |-> NoAnalysis, calls |-> 0,
          result |-> [code |-> 400, success |-> FALSE, analysis |-> <<>>,
                      message |-> "query"]]
    ELSE IF body.screening_results \in {Missing, List(<<>>)}
    THEN [a |-> NoAnalysis, calls |-> 0,
          result |-> [code |-> 400, success |-> FALSE, analysis |-> <<>>,
                      message |-> "screening_results"]]
    ELSE CHOOSE r \in
           { [a |-> p.a, calls |-> p.calls,
              result |-> IF p.a.raised
                         THEN [code |-> 500, success |-> FALSE, analysis |-> <<>>]
                         ELSE [code |-> 200, success |-> TRUE, analysis |-> p.a.text]]
             : p \in { analyze_screening_results(key, body.query,
                                                 body.screening_results.v, outcome) } }
           : TRUE

NoResult == [status |-> "none"]

AiInit ==
    /\ ai_request \in {"analyze_stock", "perform_ai_analysis", "ai_analyze",
                       "analyze_screening_results"}
    /\ ai_analyzer \in {"None", "ready"}
    /\ api_key \in BOOLEAN
    /\ ai_info \in IF ai_request \in {"analyze_stock", "perform_ai_analysis"}
                   THEN {Null} \cup DetailedInfos ELSE {Null}
    /\ post_body \in IF ai_request \in {"ai_analyze", "analyze_screening_results"}
                     THEN PostBodies ELSE {Null}
    /\ ai_request \in {"analyze_stock", "perform_ai_analysis",
                       "analyze_screening_results"} => ai_analyzer = "ready"
    /\ ai_request = "perform_ai_analysis" => ai_info # Null
    /\ ai_request = "analyze_screening_results"
          => post_body # Null /\ post_body.screening_results # Missing
    /\ ai_pc = "idle"
    /\ llm_outcome = "none"
    /\ llm_calls = 0
    /\ ai_analysis = NoAnalysis
    /\ ai_result = NoResult

AiIdle ==
    /\ ai_request = "off"
    /\ ai_analyzer = "None"
    /\ api_key = FALSE
    /\ ai_info = Null
    /\ post_body = Null
    /\ ai_pc = "off"
    /\ llm_outcome = "none"
    /\ llm_calls = 0
    /\ ai_analysis = NoAnalysis
    /\ ai_result = NoResult

\* what is left of a call: the outcome of the external request is recorded
\* only when the request was made
AiReturn(r, outcome, result) ==
    /\ ai_pc' = "done"
    /\ llm_calls' = llm_calls + r.calls
    /\ llm_outcome' = IF r.calls = 0 THEN "none" ELSE outcome
    /\ ai_analysis' = r.a
    /\ ai_result' = result
    /\ UNCHANGED <<ai_request, ai_analyzer, api_key, ai_info, post_body>>

PerformAiAnalysis ==
    /\ ai_pc = "idle" /\ ai_request = "perform_ai_analysis"
    /\ \E outcome \in LlmOutcomes :
         \E r \in { perform_ai_analysis(api_key, ai_info, outcome) } :
            AiReturn(r, outcome, NoResult)

AnalyzeStock ==
    /\ ai_pc = "idle" /\ ai_request = "analyze_stock"
    /\ \E outcome \in LlmOutcomes :
         \E r \in { analyze_stock(api_key, ai_info, outcome) } :
            AiReturn(r, outcome, r.result)

AnalyzeScreeningResults ==
    /\ ai_pc = "idle" /\ ai_request = "analyze_screening_results"
    /\ \E outcome \in LlmOutcomes :
         \E r \in { analyze_screening_results(api_key, post_body.query,
                                              post_body.screening_results.v, outcome) } :
            AiReturn(r, outcome, NoResult)

AiAnalyze ==
    /\ ai_pc = "idle" /\ ai_request = "ai_analyze"
    /\ \E outcome \in LlmOutcomes :
         \E r \in { ai_analyze_screening_results(ai_analyzer, api_key, post_body,
                                                 outcome) } :
            AiReturn(r, outcome, r.result)

AiNext ==
    \/ PerformAiAnalysis /\ UNCHANGED <<screenVars, selVars, fmtVars, apiVars, indVars, chartVars, svcVars>>
    \/ AnalyzeStock /\ UNCHANGED <<screenVars, selVars, fmtVars, apiVars, indVars, chartVars, svcVars>>
    \/ AnalyzeScreeningResults /\ UNCHANGED <<screenVars, selVars, fmtVars, apiVars, indVars, chartVars, svcVars>>
    \/ AiAnalyze /\ UNCHANGED <<screenVars, selVars, fmtVars, apiVars, indVars, chartVars, svcVars>>

-----------------------------------------------------------------------------
(* Startup and request handling: the service singletons, the guards of the  *)
(* endpoints, and the store connections of concurrent handler threads       *)

\* the globals in the order initialize_services assigns them
ServiceOrder ==
    <<"stock_data_repository", "stock_analyzer", "chart_service", "stock_service",
      "sector_analyzer", "ai_analyzer">>

ServiceNames == { ServiceOrder[i] : i \in 1..Len(ServiceOrder) }

NoServices == [g \in ServiceNames |-> FALSE]

\* the constructor calls of initialize_services: DatabaseConnector first, then
\* one per global
Constructors == 1..(Len(ServiceOrder) + 1)

\* initialize_services: every global assigned before the constructor that
\* raised stays assigned, the rest stay None
initialize_services(fail) ==
    [g \in ServiceNames |->
        \E i \in 1..Len(ServiceOrder) :
            ServiceOrder[i] = g /\ (fail = 0 \/ i + 1 < fail)]

Endpoints ==
    {"stock_chart", "ai_analysis_page", "get_ai_analysis", "get_stocks",
     "get_stock_chart", "get_sector_performance", "get_available_dates",
     "get_data_count_by_date", "get_latest_data_date", "enhanced_screening",
     "ai_analyze", "health_check"}

\* the global an endpoint tests against None before anything else
Guard(e) ==
    CASE e \in {"get_ai_analysis", "ai_analyze"} -> "ai_analyzer"
      [] e = "get_stocks" -> "stock_service"
      [] e = "get_stock_chart" -> "chart_service"
      [] e = "get_sector_performance" -> "sector_analyzer"
      [] OTHER -> "stock_data_repository"

\* the globals an endpoint dereferences
DependsOn(e) ==
    IF e = "health_check" THEN {}
    ELSE IF e = "ai_analysis_page" THEN {"stock_data_repository", "ai_analyzer"}
    ELSE {Guard(e)}

\* what a request meets: the instrument is unknown, the page template is not
\* installed, the store raises, the posted body is incomplete
Conditions(e) ==
    CASE e \in {"stock_chart", "get_stock_chart", "get_ai_analysis"}
            -> {"ok", "not_found", "store_error"}
      [] e = "ai_analysis_page" -> {"ok", "not_found", "no_template", "store_error"}
      [] e = "ai_analyze" -> {"ok", "bad_request"}
      [] OTHER -> {"ok", "store_error"}

SvcRequests ==
    UNION { { [endpoint |-> e, condition |-> c] : c \in Conditions(e) } : e \in Endpoints }

NoSvcRequest == [endpoint |-> "none", condition |-> "none"]

SvcResponse(code, status) == [code |-> code, status |-> status]

NoSvcResponse == SvcResponse(0, "none")

\* health_check: degraded when a service is None or the store probe fails
health_check(svc, condition) ==
    IF \/ \E g \in ServiceNames \ {"stock_data_repository", "stock_analyzer"} : ~svc[g]
       \/ svc["stock_data_repository"] /\ condition = "store_error"
    THEN SvcResponse(200, "degraded")
    ELSE SvcResponse(200, "healthy")

\* the part of a handler after its guard
Serve(svc, e, c) ==
    CASE e = "health_check" -> health_check(svc, c)
      [] e = "stock_chart" ->
            IF c = "store_error" THEN SvcResponse(500, "error")
            ELSE IF c = "not_found" THEN SvcResponse(404, "error")
            ELSE SvcResponse(200, "page")
      [] e = "ai_analysis_page" ->
            IF c = "store_error" THEN SvcResponse(500, "error")
            ELSE IF c = "not_found" THEN SvcResponse(404, "error")
            ELSE IF c # "no_template" THEN SvcResponse(200, "page")
            ELSE IF svc["ai_analyzer"] THEN SvcResponse(200, "success")
            ELSE SvcResponse(500, "error")
      [] e = "get_ai_analysis" ->
            IF c = "ok" THEN SvcResponse(200, "success") ELSE SvcResponse(200, "error")
      [] e = "get_stocks" -> SvcResponse(200, "success")
      [] e = "get_stock_chart" ->
            IF c = "ok" THEN SvcResponse(200, "success") ELSE SvcResponse(404, "error")
      [] e = "ai_analyze" ->
            IF c = "ok" THEN SvcResponse(200, "success") ELSE SvcResponse(400, "error")
      [] OTHER ->
            IF c = "store_error" THEN SvcResponse(500, "error")
            ELSE SvcResponse(200, "success")

\* a whole handler: 503 when the guarded global is None
Respond(svc, e, c) ==
    IF e # "health_check" /\ ~svc[Guard(e)] THEN SvcResponse(503, "error")
    ELSE Serve(svc, e, c)

\* whether the handler runs DatabaseConnector.execute_query
QueriesStore(svc, e) ==
    IF e = "health_check" THEN svc["stock_data_repository"] ELSE e # "ai_analyze"

\* DatabaseConnector.execute_query: `with self.get_connection() as conn`
\* commits or rolls back on exit and never calls close(); the connection is
\* closed only if the interpreter finalizes the object, which may or may not
\* have happened when the handler returns
execute_query_connection == {"open", "closed"}

\* the handlers hold no global statement and assign no attribute: a request
\* leaves the singletons as they are
ServicesAfterRequest_cleared(svc, e) ==
    [svc EXCEPT !["ai_analyzer"] = FALSE]

ServicesAfterRequest(svc, e) == svc

Threads == {"t1", "t2"}

SvcInit ==
    /\ process = "starting"
    /\ failed_at = 0
    /\ services = NoServices
    /\ handler_pc = [t \in Threads |-> "idle"]
    /\ handler_request = [t \in Threads |-> NoSvcRequest]
    /\ handler_response = [t \in Threads |-> NoSvcResponse]
    /\ handler_conn = [t \in Threads |-> "none"]

SvcIdle ==
    /\ process = "off"
    /\ failed_at = 0
    /\ services = NoServices
    /\ handler_pc = [t \in Threads |-> "off"]
    /\ handler_request = [t \in Threads |-> NoSvcRequest]
    /\ handler_response = [t \in Threads |-> NoSvcResponse]
    /\ handler_conn = [t \in Threads |-> "none"]

\* module load: initialize_services inside try/except, the failure is logged
\* and the application starts
Startup ==
    /\ process = "starting"
    /\ \E fail \in {0} \cup Constructors :
          /\ failed_at' = fail
          /\ services' = initialize_services(fail)
    /\ process' = "running"
    /\ UNCHANGED <<handler_pc, handler_request, handler_response, handler_conn>>

\* a handler thread takes a request and evaluates its guard
BeginRequest(t) ==
    /\ process = "running" /\ handler_pc[t] = "idle"
    /\ \E r \in SvcRequests :
          /\ handler_request' = [handler_request EXCEPT ![t] = r]
          /\ IF r.endpoint # "health_check" /\ ~services[Guard(r.endpoint)]
             THEN /\ handler_pc' = [handler_pc EXCEPT ![t] = "done"]
                  /\ handler_response' =
                        [handler_response EXCEPT ![t] = SvcResponse(503, "error")]
             ELSE /\ handler_pc' = [handler_pc EXCEPT ![t] = "guarded"]
                  /\ handler_response' = [handler_response EXCEPT ![t] = NoSvcResponse]
    /\ handler_conn' = [handler_conn EXCEPT ![t] = "none"]
    /\ services' = services
    /\ UNCHANGED <<process, failed_at>>

\* the thread runs the rest of the handler and returns its response
FinishRequest(t) ==
    /\ process = "running" /\ handler_pc[t] = "guarded"
    /\ handler_pc' = [handler_pc EXCEPT ![t] = "done"]
    /\ handler_response' =
          [handler_response EXCEPT
              ![t] = Serve(services, handler_request[t].endpoint,
                           handler_request[t].condition)]
    /\ IF QueriesStore(services, handler_request[t].endpoint)
       THEN \E c \in execute_query_connection :
               handler_conn' = [handler_conn EXCEPT ![t] = c]
       ELSE handler_conn' = handler_conn
    /\ services' = ServicesAfterRequest(services, handler_request[t].endpoint)
    /\ UNCHANGED <<process, failed_at, handler_request>>

\* the thread is free for the next request
NextRequest(t) ==
    /\ process = "running" /\ handler_pc[t] = "done"
    /\ handler_pc' = [handler_pc EXCEPT ![t] = "idle"]
    /\ handler_request' = [handler_request EXCEPT ![t] = NoSvcRequest]
    /\ handler_response' = [handler_response EXCEPT ![t] = NoSvcResponse]
    /\ handler_conn' = [handler_conn EXCEPT ![t] = "none"]
    /\ UNCHANGED <<process, failed_at, services>>

SvcNext ==
    \/ Startup /\ UNCHANGED <<screenVars, selVars, fmtVars, apiVars, indVars, chartVars, aiVars>>
    \/ \E t \in Threads : BeginRequest(t) /\ UNCHANGED <<screenVars, selVars, fmtVars, apiVars, indVars, chartVars, aiVars>>
    \/ \E t \in Threads : FinishRequest(t) /\ UNCHANGED <<screenVars, selVars, fmtVars, apiVars, indVars, chartVars, aiVars>>
    \/ \E t \in Threads : NextRequest(t) /\ UNCHANGED <<screenVars, selVars, fmtVars, apiVars, indVars, chartVars, aiVars>>

-----------------------------------------------------------------------------
(* Specifications                                                          *)

Init == ScreenInit /\ SelIdle /\ FmtIdle /\ ApiIdle /\ IndIdle /\ ChartIdle /\ AiIdle /\ SvcIdle
Next == ScreenNext
Spec == Init /\ [][Next]_vars

SelSpecInit == SelInit /\ ScreenIdle /\ FmtIdle /\ ApiIdle /\ IndIdle /\ ChartIdle /\ AiIdle /\ SvcIdle
SpecRange == SelSpecInit /\ [][SelNext]_vars

FmtSpecInit == FmtInit /\ ScreenIdle /\ SelIdle /\ ApiIdle /\ IndIdle /\ ChartIdle /\ AiIdle /\ SvcIdle
SpecFormat == FmtSpecInit /\ [][FmtNext]_vars

ApiSpecInit == ApiInit /\ ScreenIdle /\ SelIdle /\ FmtIdle /\ IndIdle /\ ChartIdle /\ AiIdle /\ SvcIdle
SpecApi == ApiSpecInit /\ [][ApiNext]_vars

IndSpecInit == IndInit /\ ScreenIdle /\ SelIdle /\ FmtIdle /\ ApiIdle /\ ChartIdle /\ AiIdle /\ SvcIdle
SpecIndicators == IndSpecInit /\ [][IndNext]_vars

ChartSpecInit == ChartInit /\ ScreenIdle /\ SelIdle /\ FmtIdle /\ ApiIdle /\ IndIdle /\ AiIdle /\ SvcIdle
SpecChart == ChartSpecInit /\ [][ChartNext]_vars

AiSpecInit ==
    AiInit /\ ScreenIdle /\ SelIdle /\ FmtIdle /\ ApiIdle /\ IndIdle /\ ChartIdle /\ SvcIdle
SpecAi == AiSpecInit /\ [][AiNext]_vars

LongSpecInit ==
    LongInit /\ ScreenIdle /\ SelIdle /\ FmtIdle /\ ApiIdle /\ ChartIdle /\ AiIdle /\ SvcIdle
SpecLongHistory == LongSpecInit /\ [][IndNext]_vars

SvcSpecInit ==
    SvcInit /\ ScreenIdle /\ SelIdle /\ FmtIdle /\ ApiIdle /\ IndIdle /\ ChartIdle /\ AiIdle
SpecServices == SvcSpecInit /\ [][SvcNext]_vars

-----------------------------------------------------------------------------
(* Properties of the screening handler                                     *)

ScreenDone == screen_pc = "done" /\ stock_data_repository = "ready"

\* the statement was built and handed to execute_query
QueryBuilt == ScreenDone /\ query # NoQuery

\* the filter owning each '?' of the appended conditions, in text order
RECURSIVE PlaceholderOwners(_)
PlaceholderOwners(conds) ==
    IF conds = <<>> THEN <<>>
    ELSE [i \in 1..Placeholders(conds[1].text) |-> conds[1].filter]
         \o PlaceholderOwners(Tail(conds))

\* the value the handler holds for a filter when it binds it
BoundValue(a, k) ==
    IF k = "is_credit_issue" THEN Num(PyInt(a[k]).v) ELSE CollectFilters(a)[k]

\* C1: in every statement the handler builds, the appended conditions hold as
\* many '?' placeholders as params has elements, the statement executed holds
\* no other placeholder, and the k-th placeholder in text order stands in the
\* predicate of the filter whose value is the k-th element of params.
C1_PlaceholdersMatchParams ==
    QueryBuilt =>
        LET owners == PlaceholderOwners(conditions)
        IN  /\ Len(owners) = Len(params)
            /\ Placeholders(QueryText(query)) = Len(params)
            /\ \A k \in 1..Len(params) :
                  /\ params[k].filter = owners[k]
                  /\ params[k].val = BoundValue(args, owners[k])

\* two different filters each bound a value and the statement ran
C1_Witness ==
    /\ QueryBuilt
    /\ response.code = 200
    /\ Len(params) >= 2
    /\ params[1].filter # params[2].filter
    /\ params[1].val # params[2].val

NoFilterSet == DOMAIN args \cap RecognizedKeys = {}

\* the rows of the latest date, projected and formatted
LatestRows(db) ==
    LET latest == SelectSeq(JoinedRows(db, stock_indicators),
                            LAMBDA jr : jr.sd["date"] = MaxDate(db))
    IN  [i \in 1..Len(latest) |->
            FormatRow([k \in 1..Len(SelectItems) |->
                          EvalItem(SelectItems[k], latest[i])]).rec]

\* C2: a request that sets no filter field builds no optional predicate and an
\* empty parameter list: the WHERE clause is the latest-date anchor alone, and
\* on a store holding the projected columns the response lists exactly the rows
\* whose date is the table-wide maximum date.
C2_NoFilterLatestRows ==
    (ScreenDone /\ NoFilterSet) =>
        /\ conditions = <<>>
        /\ params = <<>>
        /\ query.where = <<AnchorLatest>>
        /\ SiDataColumns \subseteq schema =>
              /\ response.code = 200
              /\ response.body.data = LatestRows(stock_database)
              /\ response.body.count = Len(LatestRows(stock_database))

\* a no-filter request answered with the latest rows of a table that also
\* holds older rows
C2_Witness ==
    /\ ScreenDone /\ NoFilterSet
    /\ response.code = 200
    /\ response.body.count = 3
    /\ Len(stock_database) > response.body.count

\* a raw value the converter of key k rejects
Malformed(k, raw) ==
    CASE k \in IntKeys \cup {"is_credit_issue"} -> ~PyInt(raw).ok
      [] k \in FloatKeys -> ~PyFloat(raw).ok
      [] OTHER -> FALSE

Without(a, k) == [x \in DOMAIN a \ {k} |-> a[x]]

\* C3: a value that does not parse as a number, supplied for a recognised
\* numeric key, leaves the request as if the key were absent: no predicate of
\* that filter is appended and the response is the one the request without
\* the key gets (so the malformed value never causes an error response).
C3_MalformedNumericIsAbsent ==
    ScreenDone =>
        \A k \in DOMAIN args :
            Malformed(k, args[k]) =>
                /\ \A i \in 1..Len(conditions) : conditions[i].filter # k
                /\ response =
                     Handle(Without(args, k), stock_data_repository, schema,
                            stock_database).response

\* C4: the statement built for a request references no optional
\* stock_indicators column that the deployment's schema lacks, neither in the
\* SELECT list nor in a WHERE predicate.
C4_AbsentColumnNotReferenced ==
    QueryBuilt =>
        \A c \in OptionalColumns \ schema :
            c \notin ReferencedSiColumns(QueryText(query))

\* C8: the rows a screening request returns are rows of the latest date when
\* no target date is supplied and rows of the supplied target date when one is.
C8_DateRestriction ==
    (ScreenDone /\ response.code = 200) =>
        \A i \in 1..Len(response.body.data) :
            response.body.data[i]["stock_date"] =
                IF "target_date" \in DOMAIN args
                THEN Text(args["target_date"])
                ELSE MaxDate(stock_database)

-----------------------------------------------------------------------------
(* Properties of the PER / PBR range predicates                            *)

\* the stored text without its unit suffix
StripSuffix(text) ==
    IF Len(text) > 0 /\ text[Len(text)] = Bai THEN SubSeq(text, 1, Len(text) - 1)
    ELSE text

WithinBounds(n, lo, hi) ==
    /\ IsNull(lo) \/ n >= lo.v
    /\ IsNull(hi) \/ n <= hi.v

\* C6: under a min and/or max bound on PER or PBR, a row whose stored text is
\* not a number once the unit suffix is stripped (the sentinel included) is
\* excluded, and a row storing a number with the suffix is included exactly
\* when that number lies within the bounds.
C6_SentinelExcludedNumberCompared ==
    (sel_pc = "done" /\ (~IsNull(sel_min) \/ ~IsNull(sel_max))) =>
        LET n == PyFloat(StripSuffix(sel_text))
        IN  IF n.ok THEN sel_included <=> WithinBounds(n.v, sel_min, sel_max)
            ELSE ~sel_included

-----------------------------------------------------------------------------
(* Properties of the result formatter                                      *)

AllOptionalNull(row) == \A k \in OptionalPositions : IsNull(row[k])

\* C7: a row whose optional columns are all NULL is formatted without error
\* into a record whose optional fields are all null; none is a placeholder 0.
C7_AllNullRowGivesAllNullRecord ==
    (fmt_pc = "done" /\ AllOptionalNull(fmt_row)) =>
        /\ fmt_out.ok
        /\ \A n \in OptionalFields : IsNull(fmt_out.rec[n])

\* C5: when PRAGMA table_info raises, _check_credit_indicator_columns returns
\* the empty map and raises nothing: the statement after the probe is the
\* filter-type check with no exception in flight, and the query built after a
\* failed probe is built with the empty map, so it names no optional column
C5_ProbeErrorGivesEmptyMap ==
    [][ /\ api_pc = "probe" =>
            /\ api_pc' = "check_filter_types"
            /\ api_exc' = "none"
            /\ pragma_fails => credit_columns' = EmptyMap
        /\ (api_pc = "build" /\ api_pc' = "execute" /\ "probe" \in api_failed) =>
            /\ credit_columns = EmptyMap
            /\ api_query'.query # NoQuery
            /\ ReferencedSiColumns(QueryText(api_query'.query)) \cap OptionalColumns = {}
      ]_vars

C5_Witness ==
    /\ api_pc = "execute"
    /\ "probe" \in api_failed
    /\ credit_columns = EmptyMap
    /\ api_query.query # NoQuery
    /\ api_exc = "none"

ApiDone == api_pc = "done"

ApiLogged(where, causes) ==
    \E i \in 1..Len(api_log) : api_log[i].at = where /\ api_log[i].cause \in causes

EmptySuccess ==
    /\ api_response.code = 200
    /\ api_response.body.status = "success"
    /\ api_response.body.data = <<>>
    /\ api_response.body.count = 0

\* C9: every failure raised while probing, building, executing or formatting
\* is logged and answered with the empty result list (status success,
\* count 0), and the handler returns a JSON body
C9_EveryFailureGivesEmptyList ==
    ApiDone =>
        /\ api_exc = "none"
        /\ api_response.body.status \in {"success", "error"}
        /\ api_failed \cap {"probe", "build", "execute", "format"} # {} =>
            /\ EmptySuccess
            /\ ApiLogged("probe", api_failed) \/ ApiLogged("query", api_failed)

\* C9 (amended): a failure of build, execute or format is logged and answered
\* with the empty result list (status success, count 0); a failure of the
\* probe is logged and answered with status success, the rows being those of
\* the query built without capabilities; the handler returns a JSON body and
\* no exception is left in flight
C9_FailuresAreTranslated ==
    ApiDone =>
        /\ api_exc = "none"
        /\ api_response.code \in {200, 500}
        /\ api_response.body.status \in {"success", "error"}
        /\ api_failed \cap {"build", "execute", "format"} # {} =>
            /\ EmptySuccess
            /\ ApiLogged("query", api_failed \cap {"build", "execute", "format"})
        /\ "probe" \in api_failed =>
            /\ api_response.code = 200
            /\ api_response.body.status = "success"
            /\ api_response.body.count = Len(api_response.body.data)
            /\ ApiLogged("probe", {"probe"})

C9_Witness ==
    /\ ApiDone
    /\ api_failed = {"execute"}
    /\ EmptySuccess
    /\ ApiLogged("query", {"execute"})
    /\ conn = "closed"

IndReturned == ind_pc = "returned"

\* C10: calculate_technical_indicators on fewer than 5 observations returns
\* its input: the frame is the one handed in, and none of the ma*, bb_*, rsi,
\* macd, signal, histogram, volume_ma* columns exists in it
C10_ShortHistoryUnchanged ==
    (IndReturned /\ Len(df_in["close"]) < 5) =>
        /\ df = df_in
        /\ DOMAIN df \cap IndicatorColumns = {}

C10_Witness ==
    /\ IndReturned
    /\ Len(df_in["close"]) = 4
    /\ df = df_in
    /\ DOMAIN df = HistoryColumns

ChartDone == chart_pc = "done" /\ chart_service = "ready"

\* every section is present and every list in it has one entry per row
CompleteChart(c, n) ==
    /\ DOMAIN c = ChartSections
    /\ Len(c.candlestick) = n /\ Len(c.volume) = n
    /\ \A sec \in {"line_chart", "ma_golden_cross", "bollinger_bands", "rsi", "macd"} :
          /\ Len(c[sec].dates) = n
          /\ \A k \in 1..Len(c[sec].series) : Len(c[sec].series[k].data) = n

\* C11: when the instrument has no latest snapshot or its history is empty,
\* generate_chart_data returns None and the endpoint answers 404 with status
\* error; whatever the inputs, the value returned is None or the complete
\* chart, and a chart is sent only with status 200
C11_NoChartWithoutData ==
    ChartDone =>
        /\ (stock_info = Null \/ history = <<>>) =>
              /\ chart_data = Null
              /\ chart_response.code = 404
              /\ chart_response.body.status = "error"
        /\ chart_data = Null \/ CompleteChart(chart_data, Len(history))
        /\ chart_data = Null <=> chart_response.code = 404
        /\ chart_data # Null =>
              /\ chart_response.code = 200
              /\ chart_response.body.data = chart_data

C11_Witness ==
    /\ ChartDone
    /\ stock_info # Null
    /\ history = <<>>
    /\ repo_error = "none"
    /\ chart_data = Null
    /\ chart_response.code = 404

AiDone == ai_pc = "done"

\* the list analyze_screening_results was called with
PostedResults == post_body.screening_results.v

\* C12: with no credential configured, _perform_ai_analysis and
\* analyze_screening_results (on a non-empty list) make no external call and
\* return the rule-based narrative of their input
C12_NoCredentialGivesFallback ==
    (AiDone /\ ~api_key) =>
        /\ ai_request = "perform_ai_analysis" =>
              /\ llm_calls = 0
              /\ ~ai_analysis.raised
              /\ ai_analysis = get_demo_analysis(ai_info)
        /\ (ai_request = "analyze_screening_results" /\ PostedResults # <<>>) =>
              /\ llm_calls = 0
              /\ ~ai_analysis.raised
              /\ ai_analysis = get_demo_screening_analysis(post_body.query, PostedResults)

\* C13: when the external call of a batch analysis times out,
\* analyze_screening_results returns the narrative the rule-based fallback
\* produces for that list
C13_TimeoutGivesFallback ==
    (AiDone /\ ai_request = "analyze_screening_results" /\ llm_outcome = "timeout"
       /\ ~get_demo_screening_analysis(post_body.query, PostedResults).raised) =>
        ai_analysis = get_demo_screening_analysis(post_body.query, PostedResults)

\* C14: for every record found at the latest date and every outcome of the
\* external dependency, analyze_stock returns status success
C14_AnalyzeStockAlwaysSucceeds ==
    (AiDone /\ ai_request = "analyze_stock" /\ ai_info # Null) =>
        ai_result.status = "success"

\* the mean of the change_percent values, in hundredths
MeanChange(xs) ==
    RoundDiv(SumValues([i \in 1..Len(xs) |-> xs[i].change_percent]) * 100,
             Len(xs) * Scale)

Contains(text, part) == \E i \in 1..Len(text) : text[i] = part

\* C15: with no credential, for every non-empty list whose change_percent
\* values are numbers, the batch narrative holds the number of results, their
\* mean change to two decimals and the number of rising results
C15_BatchFallbackStatistics ==
    (AiDone /\ ai_request = "analyze_screening_results" /\ ~api_key
       /\ PostedResults # <<>>
       /\ \A i \in 1..Len(PostedResults) : IsNum(PostedResults[i].change_percent)) =>
        /\ ~ai_analysis.raised
        /\ Contains(ai_analysis.text, Part("count", Len(PostedResults)))
        /\ Contains(ai_analysis.text, Part("avg_change", MeanChange(PostedResults)))
        /\ Contains(ai_analysis.text,
                    Part("positive_count",
                         Cardinality({ i \in 1..Len(PostedResults) :
                                         PostedResults[i].change_percent.v > 0 })))

\* the posted object carries no usable query / no usable result list
QueryMissing == post_body.query = Missing \/ ~Truthy(post_body.query)
ResultsMissing == post_body.screening_results \in {Missing, List(<<>>)}

\* C16: POST /api/ai-analyze with a JSON object answers 503 when the analyzer
\* is not initialized; otherwise 400 {success: false, message} for a missing
\* or empty query, checked first, or a missing or empty result list, and
\* then runs no analysis and makes no external call
C16_MissingInputRejected ==
    (AiDone /\ ai_request = "ai_analyze" /\ post_body # Null) =>
        /\ ai_analyzer = "None" => ai_result.code = 503
        /\ (ai_analyzer = "ready" /\ (QueryMissing \/ ResultsMissing)) =>
              /\ ai_result.code = 400
              /\ ~ai_result.success
              /\ ai_result.message = IF QueryMissing THEN "query" ELSE "screening_results"
              /\ ai_analysis = NoAnalysis
              /\ llm_calls = 0

\* a request with a key configured whose query and result list are both
\* missing was answered 400
C16_Witness ==
    /\ AiDone /\ ai_request = "ai_analyze" /\ ai_analyzer = "ready" /\ api_key
    /\ post_body # Null /\ QueryMissing /\ ResultsMissing
    /\ ai_result.code = 400

\* the fixed texts the screening handler's error body is written with
GenericTexts == {"error", "screening failed"}

\* C19: the body of a 500 answer of enhanced_screening holds only fixed
\* texts, nothing taken from the caught exception
C19_ServerErrorIsGeneric ==
    (ScreenDone /\ response.code = 500) =>
        \A f \in DOMAIN response.body : response.body[f] \in GenericTexts

Returned(t) == process = "running" /\ handler_pc[t] = "done"

C18_ConnectionsReleased ==
    \A t \in Threads : Returned(t) => handler_conn[t] # "open"

ChartCloses == [i \in 1..Len(history) |-> SortValues(history)[i][1]]

\* C21: in the volume series of a chart every bar but the earliest is
\* coloured up exactly when the day's close is at least the close of the day
\* before it in ascending date order
C21_VolumeColourFollowsPriorClose ==
    (ChartDone /\ chart_data # Null) =>
        \A i \in 2..Len(history) :
            (chart_data.volume[i].color = "#00B050")
                <=> (ChartCloses[i] >= ChartCloses[i - 1])

\* the 14-day average loss of the frame handed in
AverageLoss == RollingMean(Losses(Diff(df_in["close"])), 14)

\* C22: at every point where the 14-day average loss is zero the RSI is
\* null, whether or not the average gain is zero too
C22_ZeroLossGivesNullRsi ==
    (IndReturned /\ Len(df_in["close"]) >= 5) =>
        \A i \in 1..Len(df["rsi"]) :
            (~IsNaN(AverageLoss[i]) /\ AverageLoss[i].v = 0) => IsNaN(df["rsi"][i])

\* the rolling columns and their windows
RollingWindows ==
    [ma5 |-> 5, ma20 |-> 20, ma25 |-> 25, ma50 |-> 50, ma75 |-> 75, bb_middle |-> 20,
     bb_upper |-> 20, bb_lower |-> 20, rsi |-> 14, volume_ma5 |-> 5, volume_ma20 |-> 20]

\* one value per date, null at the first w - 1 positions
NullUntilWindow(c) ==
    /\ Len(df[c]) = Len(df_in["close"])
    /\ \A i \in 1..Len(df[c]) : i < RollingWindows[c] => IsNaN(df[c][i])

\* C23 as stated: every rolling column, rsi included, has one value per
\* date, null at the first w - 1 positions and non-null from position w on
C23_RollingNullExactlyBeforeWindow ==
    (IndReturned /\ Len(df_in["close"]) >= 5) =>
        \A c \in DOMAIN RollingWindows :
            /\ NullUntilWindow(c)
            /\ \A i \in 1..Len(df[c]) : i >= RollingWindows[c] => ~IsNaN(df[c][i])

\* C23: every rolling column has one value per date and is null at the first
\* w - 1 positions; from position w on the averages and the bands are
\* non-null, and rsi is non-null wherever the average loss of its window is
\* not zero
C23_RollingNullBeforeWindow ==
    (IndReturned /\ Len(df_in["close"]) >= 5) =>
        \A c \in DOMAIN RollingWindows :
            /\ NullUntilWindow(c)
            /\ \A i \in 1..Len(df[c]) :
                  (i >= RollingWindows[c] /\ IsNaN(df[c][i])) =>
                      c = "rsi" /\ AverageLoss[i].v = 0

\* 76 observations: ma75 is null up to the 74th and set from the 75th, and
\* the close moved in every 14-day window
C23_Witness ==
    /\ IndReturned /\ Len(df_in["close"]) = 76
    /\ IsNaN(df["ma75"][74]) /\ ~IsNaN(df["ma75"][75])
    /\ IsNaN(df["rsi"][13]) /\ \A i \in 14..76 : ~IsNaN(df["rsi"][i])

NonDecreasing(xs, from) ==
    \A i \in from..(Len(xs) - 1) : xs[i].v <= xs[i + 1].v

\* C24: for 30 closes that never fall in date order the 5-day moving average
\* never falls from the 5th observation on
C24_RisingCloseGivesRisingMa5 ==
    (IndReturned /\ Len(df_in["close"]) = 30 /\ NonDecreasing(df_in["close"], 1)) =>
        /\ \A i \in 5..30 : ~IsNaN(df["ma5"][i])
        /\ NonDecreasing(df["ma5"], 5)

\* 30 closes that rise on some days and stay on others, and a moving average
\* that ends above where it started
C24_Witness ==
    /\ IndReturned /\ Len(df_in["close"]) = 30 /\ NonDecreasing(df_in["close"], 1)
    /\ df_in["close"][2] = df_in["close"][1]
    /\ df["ma5"][5].v < df["ma5"][30].v

\* a condition on a missing input is false
IsBelow(x, n) == IsNum(x) /\ x.v < n * Scale
IsAbove(x, n) == IsNum(x) /\ x.v > n * Scale

\* how many of the four conditions hold for a record
ConditionsHeld(info) ==
    (IF IsNum(info.price) /\ IsNum(info.ma25) /\ info.price.v > info.ma25.v
     THEN 1 ELSE 0)
    + (IF IsBelow(info.rsi, 70) THEN 1 ELSE 0)
    + (IF IsBelow(info.per, 20) THEN 1 ELSE 0)
    + (IF IsAbove(info.volume_ratio, 100) THEN 1 ELSE 0)

VerdictFor(k) == IF k >= 3 THEN "buy" ELSE IF k = 2 THEN "neutral" ELSE "wait"

VerdictLines(text) ==
    { i \in 1..Len(text) : text[i].k \in {"buy", "neutral", "wait"} }

\* C25: the fallback narrative of every record holds exactly one verdict
\* line, and it is buy for 3 or 4 of the four conditions (price above MA25,
\* RSI below 70, PER below 20, volume ratio above 100), neutral for 2 and
\* hold for fewer
C25_VerdictCountsFourConditions ==
    (AiDone /\ ai_request = "perform_ai_analysis" /\ ~api_key) =>
        /\ ~ai_analysis.raised
        /\ Cardinality(VerdictLines(ai_analysis.text)) = 1
        /\ \A i \in VerdictLines(ai_analysis.text) :
              ai_analysis.text[i].k = VerdictFor(ConditionsHeld(ai_info))

\* the predicates a filter appended, in order
PredicatesOf(conds, k) ==
    LET Mine(c) == c.filter = k
    IN  [i \in 1..Len(SelectSeq(conds, Mine)) |-> SelectSeq(conds, Mine)[i].text]

\* the values a filter bound, in order
BoundBy(ps, k) ==
    LET Mine(x) == x.filter = k
    IN  [i \in 1..Len(SelectSeq(ps, Mine)) |-> SelectSeq(ps, Mine)[i].val]

\* the request asks for the credit filter with a value that names 0 or 1
CreditSet == "is_credit_issue" \in DOMAIN args /\ PyInt(args["is_credit_issue"]).ok

\* C26: a finished request carries the margin_lending_only predicate exactly
\* when that flag is true, with no bound value, and the is_credit_issue
\* predicate with exactly one bound value when that filter is given and none
\* when it is omitted; what either filter contributes is what it contributes
\* to the same request with the other filter removed.
C26_CreditAndMarginIndependent ==
    ScreenDone =>
        /\ PredicatesOf(conditions, "margin_lending_only")
             = IF ArgsFlag(args, "margin_lending_only")
               THEN <<MarginLendingCond>> ELSE <<>>
        /\ BoundBy(params, "margin_lending_only") = <<>>
        /\ CreditSet =>
             /\ PredicatesOf(conditions, "is_credit_issue") = <<CreditCond>>
             /\ BoundBy(params, "is_credit_issue")
                  = <<BoundValue(args, "is_credit_issue")>>
        /\ "is_credit_issue" \notin DOMAIN args =>
             /\ PredicatesOf(conditions, "is_credit_issue") = <<>>
             /\ BoundBy(params, "is_credit_issue") = <<>>
        /\ \A k \in {"is_credit_issue", "margin_lending_only"} :
             \A o \in {"is_credit_issue", "margin_lending_only"} \ {k} :
               \E b \in { BuildConditions(CollectFilters(Without(args, k))) } :
                 /\ PredicatesOf(b.conditions, o) = PredicatesOf(conditions, o)
                 /\ BoundBy(b.params, o) = BoundBy(params, o)
        /\ CreditCond # MarginLendingCond

\* the same statement restricted to requests whose statement was built
C26_HoldsWhenStatementBuilt == QueryBuilt => C26_CreditAndMarginIndependent

\* the rows of the join the statement of the finished request ranged over
StoreRows ==
    { JoinedRows(stock_database, stock_indicators)[i]
        : i \in 1..Len(JoinedRows(stock_database, stock_indicators)) }

\* the record the handler displays for a row of the join
Displayed(jr) ==
    FormatRow([k \in 1..Len(SelectItems) |-> EvalItem(SelectItems[k], jr)]).rec

\* a displayed number lies within the bounds that were supplied
Within(x, lo, hi) ==
    /\ IsNum(x)
    /\ IsNull(lo) \/ x.v >= lo.v
    /\ IsNull(hi) \/ x.v <= hi.v

\* the row satisfies every predicate the two ROE bounds appended
RoePredicatesHold(jr) ==
    \A j \in 1..Len(conditions) :
        conditions[j].filter \in {"min_roe", "max_roe"} =>
            EvalConjunct(conditions[j].text, jr,
                         BoundBy(params, conditions[j].filter), stock_database)

RoeBounded ==
    /\ ScreenDone
    /\ \E k \in {"min_roe", "max_roe"} : ~IsNull(CollectFilters(args)[k])

\* C27: under a min_roe and/or max_roe bound a row of the store satisfies the
\* ROE predicates exactly when the roe displayed for it is a number within the
\* bounds, and every record of a successful answer displays such a number.
C27_RoeFilterMatchesDisplayedRoe ==
    RoeBounded =>
        \E lo \in { CollectFilters(args)["min_roe"] } :
        \E hi \in { CollectFilters(args)["max_roe"] } :
            /\ \A jr \in StoreRows :
                 RoePredicatesHold(jr) <=> Within(Displayed(jr)["roe"], lo, hi)
            /\ response.code = 200 =>
                 \A i \in 1..Len(response.body.data) :
                     Within(response.body.data[i]["roe"], lo, hi)

\* a bounded request answered with a row, while the store also holds a row
\* whose displayed roe is null
C27_Witness ==
    /\ RoeBounded
    /\ response.code = 200
    /\ response.body.data # <<>>
    /\ \E jr \in StoreRows : IsNull(Displayed(jr)["roe"])

\* the request was answered with rows under a bound on the given ratio
RatioBounded(col) ==
    /\ ScreenDone
    /\ response.code = 200
    /\ \E k \in {"min_" \o col, "max_" \o col} : ~IsNull(CollectFilters(args)[k])

\* C28: every record of an answer to a request bounding PER (resp. PBR)
\* displays a per (resp. pbr) that is a number within the supplied bounds.
C28_RatioDisplayedWithinBounds ==
    \A col \in {"per", "pbr"} :
        RatioBounded(col) =>
            \A i \in 1..Len(response.body.data) :
                Within(response.body.data[i][col],
                       CollectFilters(args)["min_" \o col],
                       CollectFilters(args)["max_" \o col])

\* a JSON object with a query and a non-empty list of screening records
BatchPosted ==
    /\ post_body # Null
    /\ post_body.query # Missing
    /\ Truthy(post_body.query)
    /\ post_body.screening_results \notin {Missing, List(<<>>)}

\* C29: with no credential, for every non-empty list of screening records
\* (a null or missing change_percent or volume_ratio included) the batch
\* analysis returns a narrative without raising, and POST /api/ai-analyze
\* answers 200 with success true.
C29_BatchFallbackNeverRaises ==
    (AiDone /\ ~api_key /\ ai_analyzer = "ready" /\ BatchPosted) =>
        /\ ai_request = "analyze_screening_results" => ~ai_analysis.raised
        /\ ai_request = "ai_analyze" =>
              /\ ~ai_analysis.raised
              /\ ai_result.code = 200
              /\ ai_result.success

\* a snapshot and a history of one to four observations, both fetched
ShortHistory ==
    /\ ChartDone
    /\ chart_service = "ready"
    /\ repo_error = "none"
    /\ stock_info # Null
    /\ Len(history) \in 1..4

\* C30: for an instrument with a latest snapshot and a history of 1 to 4
\* observations generate_chart_data returns the complete chart of that
\* history and the endpoint answers 200, not 404.
C30_ShortHistoryGivesChart ==
    ShortHistory =>
        /\ chart_data # Null
        /\ CompleteChart(chart_data, Len(history))
        /\ chart_response.code = 200

=============================================================================
